---- MODULE Spec2Model ----
(***************************************************************************)
(* Model of the RAK Porcelain chatbot backend: the POST /api/chat handlers *)
(* (routes/chat.js, routes/chat.ts, server-fixed.ts, simple-chat.ts), the  *)
(* streaming handler POST /api/chat/stream, the JSON product upload, and   *)
(* the messages / conversations routers.                                   *)
(*                                                                         *)
(* Text is a sequence of string tokens; JavaScript string concatenation is *)
(* sequence concatenation.  A request body field is a JsVal: a record with *)
(* a kind (undefined / string / number) and its text.                      *)
(***************************************************************************)
EXTENDS Integers, Sequences, FiniteSets, TLC

\* ------------------------------------------------------------------------
\* Bounds of the model
\* ------------------------------------------------------------------------
\* longest list the vector search returns in the model
MaxDocs == 2
\* most chunks one generation stream delivers in the model
MaxChunks == 2
\* most products in one upload body in the model
MaxProducts == 2
\* chat requests in flight at once in the concurrent specification
MaxInFlight == 2

\* ------------------------------------------------------------------------
\* JavaScript values of request body fields
\* ------------------------------------------------------------------------
Undefined == [kind |-> "undefined", str |-> ""]
Str(s) == [kind |-> "string", str |-> s]
Num(s) == [kind |-> "number", str |-> s]

\* !v is false
Truthy(v) ==
  \/ v.kind = "string" /\ v.str # ""
  \/ v.kind = "number" /\ v.str # "0"

\* typeof v === 'string'
IsString(v) == v.kind = "string"

\* ------------------------------------------------------------------------
\* Retrieved documents
\* ------------------------------------------------------------------------
\* source_id of a row whose source_id column is null
NullId == "<null>"

\* similarity is kept in tenths: 7 stands for 0.7
MinSimilarityTenths == 7

DocPool ==
  { [product_id |-> "p1", source_type |-> "description", source_id |-> "s1",
     text_snippet |-> "t1", similarity |-> 8],
    [product_id |-> "p2", source_type |-> "faq", source_id |-> NullId,
     text_snippet |-> "t2", similarity |-> 5],
    [product_id |-> "p3", source_type |-> "spec", source_id |-> "s3",
     text_snippet |-> "t3", similarity |-> 6] }

\* the lists match_embeddings can return: no repetition, at most MaxDocs rows
DocLists ==
  { s \in UNION { [1..n -> DocPool] : n \in 0..MaxDocs } :
      \A i, j \in DOMAIN s : i # j => s[i] # s[j] }

\* docs.filter(doc => doc.similarity >= minSimilarity)
RECURSIVE FilterSimilar(_, _)
FilterSimilar(docs, minSimilarity) ==
  IF docs = <<>> THEN <<>>
  ELSE IF Head(docs).similarity >= minSimilarity
       THEN <<Head(docs)>> \o FilterSimilar(Tail(docs), minSimilarity)
       ELSE FilterSimilar(Tail(docs), minSimilarity)

\* ------------------------------------------------------------------------
\* Context assembly
\* ------------------------------------------------------------------------
\* array.join(sep) over texts
RECURSIVE JoinText(_, _)
JoinText(parts, sep) ==
  IF parts = <<>> THEN <<>>
  ELSE IF Len(parts) = 1 THEN parts[1]
  ELSE parts[1] \o sep \o JoinText(Tail(parts), sep)

\* lib/retrieval: the ID part is present only for a truthy source_id
ProvenanceTagLib(doc) ==
  <<"[Product: ", doc.product_id, ", Source: ", doc.source_type>>
    \o (IF doc.source_id # NullId /\ doc.source_id # ""
        THEN <<", ID: ", doc.source_id>> ELSE <<>>)
    \o <<"]">>

buildContextText(docs) ==
  JoinText([i \in DOMAIN docs |->
              ProvenanceTagLib(docs[i]) \o <<"\n", docs[i].text_snippet>>],
           <<"\n\n">>)

\* simple-chat.ts builds the context inline, without the ID part
ProvenanceTagSimple(doc) ==
  <<"[Product: ", doc.product_id, ", Source: ", doc.source_type, "]">>

SimpleContextText(docs) ==
  JoinText([i \in DOMAIN docs |->
              ProvenanceTagSimple(docs[i]) \o <<"\n", docs[i].text_snippet>>],
           <<"\n\n">>)

\* ------------------------------------------------------------------------
\* Responses
\* ------------------------------------------------------------------------
\* the fixed escalation sentence; its em dash is written -- here
EscalationText ==
  <<"I don't have that information -- would you like me to escalate to an admin?">>

SetupText ==
  <<"I'm the RAK Porcelain AI Assistant! I'm currently being set up. Please configure your Supabase database and OpenAI API key to enable full functionality.">>

\* what the chat-completion API may answer: anything, the escalation
\* sentence included
Answers == { <<"a1">>, <<"a2">>, EscalationText }

\* field a provenance entry of a handler does not carry
Absent == "<absent>"

\* routes/chat.js: product_id, source_type, source_id, similarity
ProvenanceEntryJs(doc) ==
  [product_id |-> doc.product_id, source_type |-> doc.source_type,
   source_id |-> doc.source_id, text_snippet |-> <<Absent>>,
   similarity |-> doc.similarity]

\* chat.ts, server-fixed.ts, simple-chat.ts: product_id, source_type,
\* text_snippet.substring(0, 100) + '...', similarity (the snippets of
\* DocPool are shorter than 100 characters)
ProvenanceEntryTs(doc) ==
  [product_id |-> doc.product_id, source_type |-> doc.source_type,
   source_id |-> Absent, text_snippet |-> <<doc.text_snippet, "...">>,
   similarity |-> doc.similarity]

ProvenanceListJs(docs) == [i \in DOMAIN docs |-> ProvenanceEntryJs(docs[i])]
\* variant: only the best match is cited
ProvenanceListTsTopOnly(docs) ==
  [i \in 1..(IF Len(docs) = 0 THEN 0 ELSE 1) |-> ProvenanceEntryTs(docs[i])]

ProvenanceListTs(docs) == [i \in DOMAIN docs |-> ProvenanceEntryTs(docs[i])]

NoBody == [answer |-> <<>>, provenance |-> <<>>,
           retrieved_docs |-> [kind |-> "none", n |-> 0], error |-> ""]

ErrorBody(e) == [NoBody EXCEPT !.error = e]

AnswerBody(answer, provenance, rd) ==
  [answer |-> answer, provenance |-> provenance, retrieved_docs |-> rd,
   error |-> ""]

\* retrieved_docs: [] and retrieved_docs: <number>
EmptyArray == [kind |-> "array", n |-> 0]
Count(n) == [kind |-> "number", n |-> n]

\* ------------------------------------------------------------------------
\* State
\* ------------------------------------------------------------------------
VARIABLES
  req,            \* the request handled in each slot: its locals, its response
  conversations,  \* rows of the conversations table written by the chat handlers
  products,       \* rows of the products table written by the upload handler
  embeddings,     \* rows of the embeddings table written by the upload handler
  envConfigured   \* OPENAI_API_KEY and SUPABASE_URL are set in the process

chatVars == <<req, conversations, products, embeddings, envConfigured>>

Slots == 1..MaxInFlight

\* handlers of POST /api/chat, then the streaming one and the JSON upload
ChatHandlers == {"chatjs", "chatts", "serverfixed", "simple"}
LibHandlers == {"chatjs", "chatts", "stream", "upload"}

AbsentVal == [kind |-> "absent", str |-> ""]

\* locals and response of one request.  delivered, retrieved, generated,
\* saveOutcome and failedCall are history: what the generation API handed to
\* this request, which calls returned, and which call failed.  limit is the
\* query parameter of the history endpoint and history the conversations
\* array of its response.
IdleReq ==
  [handler |-> "none", pc |-> "idle",
   message |-> Undefined, sessionId |-> Undefined,
   docs |-> <<>>, contextText |-> <<>>, answer |-> <<>>,
   fullAnswer |-> <<>>, written |-> <<>>, delivered |-> <<>>,
   headersSent |-> FALSE, ended |-> FALSE,
   status |-> 0, body |-> NoBody,
   nEmbed |-> 0, nSearch |-> 0, nGen |-> 0, nSave |-> 0,
   retrieved |-> FALSE, generated |-> FALSE, saveOutcome |-> "none",
   failedCall |-> "none",
   items |-> <<>>, results |-> <<>>,
   limit |-> Undefined, history |-> <<>>]

\* res.status(code).json(body) / res.json(body); the handler is over
Respond(rq, r, code, body) ==
  [rq EXCEPT ![r].status = code, ![r].body = body, ![r].pc = "done",
             ![r].headersSent = TRUE, ![r].ended = TRUE]

\* the catch block of a handler: res.status(500).json(...).  Once the
\* status line and chunks have gone out the call throws
\* ERR_HTTP_HEADERS_SENT, the client keeps the 200 it already received and
\* the response is never ended.
CatchRespond500(rq, r, call) ==
  IF rq[r].headersSent
  THEN [rq EXCEPT ![r].pc = "done", ![r].failedCall = call]
  ELSE [Respond(rq, r, 500, ErrorBody("Internal server error"))
          EXCEPT ![r].failedCall = call]

\* variant: no handler looks at the sessionId
ValidationErrorMessageOnly(h, m, s) ==
  IF h \in {"chatjs", "stream"}
  THEN IF ~Truthy(m) \/ ~IsString(m)
       THEN "Message is required and must be a string"
       ELSE ""
  ELSE IF ~Truthy(m) THEN "Message is required" ELSE ""

\* input validation of each handler; "" when the body passes
ValidationError(h, m, s) ==
  IF h \in {"chatjs", "stream"}
  THEN IF ~Truthy(m) \/ ~IsString(m)
       THEN "Message is required and must be a string"
       ELSE IF ~Truthy(s) \/ ~IsString(s)
            THEN "Session ID is required and must be a string"
            ELSE ""
  ELSE IF ~Truthy(m) THEN "Message is required" ELSE ""

\* the context a handler puts in the generation call
ContextOf(h, docs) ==
  IF h = "simple" THEN SimpleContextText(docs) ELSE buildContextText(docs)

\* the provenance list of a handler's 200 response
ProvenanceOf(h, docs) ==
  IF h = "chatjs" THEN ProvenanceListJs(docs) ELSE ProvenanceListTs(docs)

\* zero documents: routes/chat.js answers at once, the others go on
EscalatesOnNoDocs(h) == h \in {"chatjs", "stream"}

\* a failed saveConversation is caught in routes/chat.js and simple-chat.ts
SwallowsSaveError(h) == h \in {"chatjs", "stream", "simple"}

\* variant: every handler stores its local answer
StoredAnswerLocal(h, q) == q.answer

\* assistant_response: answer, or fullAnswer in the streaming handler
StoredAnswer(h, q) == IF h = "stream" THEN q.fullAnswer ELSE q.answer

\* the argument each handler passes to the conversations insert
SaveRow(h, q) ==
  CASE h \in {"chatjs", "stream"} ->
         [columns |-> {"session_id", "user_message", "assistant_response",
                       "retrieved_docs"},
          session_id |-> q.sessionId, user_message |-> q.message,
          answer |-> StoredAnswer(h, q),
          docs |-> ProvenanceListJs(q.docs)]
    [] h = "simple" ->
         [columns |-> {"session_id", "user_message", "assistant_response",
                       "retrieved_docs"},
          session_id |-> q.sessionId, user_message |-> q.message,
          answer |-> q.answer,
          docs |-> [i \in DOMAIN q.docs |->
                      [ProvenanceEntryJs(q.docs[i])
                         EXCEPT !.text_snippet = <<q.docs[i].text_snippet>>]]]
    [] h = "serverfixed" ->
         [columns |-> {"session_id", "user_message", "assistant_message",
                       "provenance"},
          session_id |-> q.sessionId, user_message |-> q.message,
          answer |-> q.answer,
          docs |-> [i \in DOMAIN q.docs |->
                      [ProvenanceEntryJs(q.docs[i])
                         EXCEPT !.text_snippet = <<q.docs[i].text_snippet>>]]]
    [] OTHER ->
         \* chat.ts passes four positional arguments: the row is sessionId
         [columns |-> {},
          session_id |-> q.sessionId, user_message |-> AbsentVal,
          answer |-> <<>>, docs |-> <<>>]

\* ------------------------------------------------------------------------
\* POST /api/chat and POST /api/chat/stream
\* ------------------------------------------------------------------------
MessageInputs == {Undefined, Str(""), Num("42"), Str("m1"), Str("m2")}
SessionInputs == {Undefined, Str(""), Num("42"), Str("s1"), Str("s2")}

\* The request arrives: validation, the setup answer of the standalone
\* servers, and the embedding call is issued.
ChatStart(r, h, m, s) ==
  /\ req[r].pc = "idle"
  /\ h \in LibHandlers => envConfigured
  /\ LET q == [IdleReq EXCEPT !.handler = h, !.message = m, !.sessionId = s]
         rq == [req EXCEPT ![r] = q]
         err == ValidationError(h, m, s)
     IN req' =
          IF err # "" THEN Respond(rq, r, 400, ErrorBody(err))
          ELSE IF h \in {"serverfixed", "simple"} /\ ~envConfigured
          THEN Respond(rq, r, 200, AnswerBody(SetupText, <<>>, Count(0)))
          ELSE [rq EXCEPT ![r].pc = "embedding", ![r].nEmbed = @ + 1]
  /\ UNCHANGED <<conversations, products, embeddings, envConfigured>>

\* getEmbedding returns or throws; on success the match_embeddings RPC is
\* issued
EmbedReturn(r, ok) ==
  /\ req[r].pc = "embedding"
  /\ req' = IF ok
            THEN [req EXCEPT ![r].pc = "searching", ![r].nSearch = @ + 1]
            ELSE CatchRespond500(req, r, "embedding")
  /\ UNCHANGED <<conversations, products, embeddings, envConfigured>>

\* the RPC returns rows or an error; with rows the context is built and the
\* generation call is issued
SearchReturn(r, ok, docs) ==
  /\ req[r].pc = "searching"
  /\ LET h == req[r].handler
     IN req' =
          IF ~ok THEN CatchRespond500(req, r, "search")
          ELSE IF EscalatesOnNoDocs(h) /\ Len(docs) = 0
          THEN Respond([req EXCEPT ![r].retrieved = TRUE, ![r].docs = docs],
                       r, 200, AnswerBody(EscalationText, <<>>, EmptyArray))
          ELSE [req EXCEPT ![r].retrieved = TRUE,
                           ![r].docs = docs,
                           ![r].contextText = ContextOf(h, docs),
                           ![r].nGen = @ + 1,
                           ![r].pc = IF h = "stream" THEN "connecting"
                                     ELSE "generating"]
  /\ UNCHANGED <<conversations, products, embeddings, envConfigured>>

\* variant: the user turn and the assistant turn are written separately
AfterAnswerTwoWrites(rq, r) ==
  LET h == rq[r].handler
  IN IF h = "chatjs" \/ Truthy(rq[r].sessionId)
     THEN [rq EXCEPT ![r].pc = "saving", ![r].nSave = @ + 2]
     ELSE Respond(rq, r, 200,
                  AnswerBody(rq[r].answer, ProvenanceOf(h, rq[r].docs),
                             Count(Len(rq[r].docs))))

\* what follows a successful generation: the save is issued, or, in the
\* handlers that save only with a sessionId, the response is sent
AfterAnswer(rq, r) ==
  LET h == rq[r].handler
  IN IF h = "chatjs" \/ Truthy(rq[r].sessionId)
     THEN [rq EXCEPT ![r].pc = "saving", ![r].nSave = @ + 1]
     ELSE Respond(rq, r, 200,
                  AnswerBody(rq[r].answer, ProvenanceOf(h, rq[r].docs),
                             Count(Len(rq[r].docs))))

\* chatCompletion returns the answer or throws
GenReturn(r, ok, answer) ==
  /\ req[r].pc = "generating"
  /\ req' = IF ok
            THEN AfterAnswer([req EXCEPT ![r].answer = answer,
                                         ![r].delivered = answer,
                                         ![r].generated = TRUE], r)
            ELSE CatchRespond500(req, r, "generation")
  /\ UNCHANGED <<conversations, products, embeddings, envConfigured>>

\* the conversations insert returns or fails; then res.json of the
\* non-streaming handlers
SaveReturn(r, ok) ==
  /\ req[r].pc = "saving"
  /\ req[r].handler # "stream"
  /\ LET h == req[r].handler
         rq == [req EXCEPT ![r].saveOutcome = IF ok THEN "ok" ELSE "failed"]
     IN /\ conversations' = IF ok THEN Append(conversations, SaveRow(h, req[r]))
                            ELSE conversations
        /\ req' = IF ok \/ SwallowsSaveError(h)
                  THEN Respond(rq, r, 200,
                               AnswerBody(req[r].answer,
                                          ProvenanceOf(h, req[r].docs),
                                          Count(Len(req[r].docs))))
                  ELSE CatchRespond500(rq, r, "save")
  /\ UNCHANGED <<products, embeddings, envConfigured>>

\* the fetch of the streaming completion answers (response.ok) or fails
StreamOpen(r, ok) ==
  /\ req[r].pc = "connecting"
  /\ req' = IF ok THEN [req EXCEPT ![r].pc = "streaming"]
            ELSE CatchRespond500(req, r, "generation")
  /\ UNCHANGED <<conversations, products, embeddings, envConfigured>>

ChunkPool == {"x", "y"}

\* variant: fullAnswer is a module-level variable, shared by the streaming
\* requests in flight
OnChunkSharedAnswer(rq, r, chunk) ==
  [q \in DOMAIN rq |->
     IF q = r
     THEN [rq[q] EXCEPT !.fullAnswer = @ \o <<chunk>>,
                        !.written = @ \o <<chunk>>,
                        !.headersSent = TRUE, !.status = 200]
     ELSE IF rq[q].handler = "stream" /\ rq[q].pc \in {"connecting", "streaming"}
          THEN [rq[q] EXCEPT !.fullAnswer = @ \o <<chunk>>]
          ELSE rq[q]]

\* the onChunk callback of the streaming handler: fullAnswer += chunk;
\* res.write(chunk).  The first write sends the 200 status line.
OnChunk(rq, r, chunk) ==
  [rq EXCEPT ![r].fullAnswer = @ \o <<chunk>>,
             ![r].written = @ \o <<chunk>>,
             ![r].headersSent = TRUE,
             ![r].status = 200]

\* one delta of the completion reaches the handler
StreamChunk(r, chunk) ==
  /\ req[r].pc = "streaming"
  /\ Len(req[r].delivered) < MaxChunks
  /\ req' = OnChunk([req EXCEPT ![r].delivered = @ \o <<chunk>>], r, chunk)
  /\ UNCHANGED <<conversations, products, embeddings, envConfigured>>

\* reader.read() rejects in the middle of the stream
StreamError(r) ==
  /\ req[r].pc = "streaming"
  /\ req' = CatchRespond500(req, r, "generation")
  /\ UNCHANGED <<conversations, products, embeddings, envConfigured>>

\* [DONE] or end of body: res.end(), then the save is issued
StreamEnd(r) ==
  /\ req[r].pc = "streaming"
  /\ req' = [req EXCEPT ![r].generated = TRUE,
                        ![r].headersSent = TRUE, ![r].status = 200,
                        ![r].ended = TRUE,
                        ![r].pc = "saving", ![r].nSave = @ + 1]
  /\ UNCHANGED <<conversations, products, embeddings, envConfigured>>

\* the save of the streaming handler returns or fails (caught and logged)
StreamSaveReturn(r, ok) ==
  /\ req[r].pc = "saving"
  /\ req[r].handler = "stream"
  /\ conversations' = IF ok
                      THEN Append(conversations, SaveRow("stream", req[r]))
                      ELSE conversations
  /\ req' = [req EXCEPT ![r].saveOutcome = IF ok THEN "ok" ELSE "failed",
                        ![r].pc = "done"]
  /\ UNCHANGED <<products, embeddings, envConfigured>>

\* ------------------------------------------------------------------------
\* POST /api/upload/product-data
\* ------------------------------------------------------------------------
ProductPool == { [name |-> "n1", description |-> "d1"],
                 [name |-> "n2", description |-> ""] }

\* req.body.products: missing, or an array of at most MaxProducts products
UploadBodies ==
  { [isArray |-> FALSE, items |-> <<>>] } \cup
  { [isArray |-> TRUE, items |-> s] :
      s \in UNION { [1..n -> ProductPool] : n \in 0..MaxProducts } }

UploadDone(rq, r) ==
  Respond(rq, r, 200, [NoBody EXCEPT !.error = "Products processed"])

UploadStart(r, body) ==
  /\ req[r].pc = "idle"
  /\ envConfigured
  /\ LET rq == [req EXCEPT ![r] = [IdleReq EXCEPT !.handler = "upload",
                                                  !.items = body.items]]
     IN req' =
          IF ~body.isArray
          THEN Respond(rq, r, 400, ErrorBody("Products array is required"))
          ELSE IF body.items = <<>> THEN UploadDone(rq, r)
          ELSE [rq EXCEPT ![r].pc = "uploading"]
  /\ UNCHANGED <<conversations, products, embeddings, envConfigured>>

\* One turn of the loop over the products: createProduct, then for a product
\* with a description getEmbedding and the embeddings insert, whose outcome
\* is not inspected.  After the last product the results are sent.
UploadProduct(r, createOk, embedOk, insertOk) ==
  /\ req[r].pc = "uploading"
  /\ LET i == Len(req[r].results) + 1
         item == req[r].items[i]
         id == Len(products) + 1
         hasDesc == item.description # ""
         embedCalled == createOk /\ hasDesc
         insertCalled == embedCalled /\ embedOk
         success == createOk /\ (hasDesc => embedOk)
         result == [name |-> item.name,
                    product_id |-> IF success THEN id ELSE 0,
                    status |-> IF success THEN "success" ELSE "error"]
         rq == [req EXCEPT
                  ![r].results = Append(@, result),
                  ![r].nSave = @ + 1 + (IF insertCalled THEN 1 ELSE 0),
                  ![r].nEmbed = @ + (IF embedCalled THEN 1 ELSE 0)]
     IN /\ products' = IF createOk
                       THEN Append(products,
                                   [id |-> id, name |-> item.name,
                                    description |-> item.description])
                       ELSE products
        /\ embeddings' = IF insertCalled /\ insertOk
                         THEN Append(embeddings,
                                     [product_id |-> id,
                                      source_type |-> "description",
                                      text_snippet |-> item.description])
                         ELSE embeddings
        /\ req' = IF i = Len(req[r].items) THEN UploadDone(rq, r) ELSE rq
  /\ UNCHANGED <<conversations, envConfigured>>

\* ------------------------------------------------------------------------
\* GET /api/chat/history/:sessionId
\* ------------------------------------------------------------------------
\* const { limit = 50 } = req.query
DefaultLimit == 50

\* ?limit= is absent or a decimal string
LimitInputs == {Undefined, Str("1"), Str("2")}

\* parseInt of a decimal string
ParseInt(s) == CHOOSE n \in 0..99 : ToString(n) = s

LimitOf(v) == IF v = Undefined THEN DefaultLimit ELSE ParseInt(v.str)

\* a column of a stored row as the history endpoint reads it: a row written
\* without that column has no value there
NoValue == [present |-> FALSE]
Value(v) == [present |-> TRUE, val |-> v]
Column(row, name, v) == IF name \in row.columns THEN Value(v) ELSE NoValue

\* conversations.map(conv => ({id, user_message, assistant_response,
\* retrieved_docs, created_at})); the id is the position of the insert
HistoryEntry(i) ==
  LET conv == conversations[i]
  IN [id |-> i,
      user_message |-> Column(conv, "user_message", conv.user_message),
      assistant_response |-> Column(conv, "assistant_response", conv.answer),
      retrieved_docs |-> Column(conv, "retrieved_docs", conv.docs)]

\* positions of the rows with session_id = sessionId, newest first
RECURSIVE SessionRows(_, _)
SessionRows(sessionId, n) ==
  IF n = 0 THEN <<>>
  ELSE (IF "session_id" \in conversations[n].columns
           /\ conversations[n].session_id = sessionId
        THEN <<n>> ELSE <<>>)
       \o SessionRows(sessionId, n - 1)

\* select * ... eq session_id order by created_at desc limit $limit
getConversationHistory(sessionId, limit) ==
  LET rows == SessionRows(sessionId, Len(conversations))
  IN SubSeq(rows, 1, IF limit < Len(rows) THEN limit ELSE Len(rows))

\* the request arrives and the select is issued
HistoryStart(r, s, limit) ==
  /\ req[r].pc = "idle"
  /\ req' = [req EXCEPT ![r] = [IdleReq EXCEPT !.handler = "history",
                                              !.sessionId = s,
                                              !.limit = limit,
                                              !.pc = "querying"]]
  /\ UNCHANGED <<conversations, products, embeddings, envConfigured>>

\* the select returns rows, or fails and the handler answers 500
HistoryReturn(r, ok) ==
  /\ req[r].pc = "querying"
  /\ LET rows == getConversationHistory(req[r].sessionId,
                                        LimitOf(req[r].limit))
     IN req' =
          IF ok
          THEN Respond([req EXCEPT ![r].history =
                          [k \in DOMAIN rows |-> HistoryEntry(rows[k])]],
                       r, 200, NoBody)
          ELSE Respond(req, r, 500, ErrorBody("Internal server error"))
  /\ UNCHANGED <<conversations, products, embeddings, envConfigured>>

\* ------------------------------------------------------------------------
\* POST /api/upload/images
\* ------------------------------------------------------------------------
\* most files in one request, and most requests, in the model
MaxFiles == 2
MaxImageRequests == 2

VARIABLES
  product_images, \* rows of the product_images table; request is history:
                  \* the number of the request that stored the row
  ireq            \* the image upload being handled, its locals, its response

imgVars == <<product_images, ireq>>

\* req.files: absent, or the files multer stored, f1 first
FileLists == { [i \in 1..n |-> "f" \o ToString(i)] : n \in 0..MaxFiles }
ProductIdInputs == {Undefined, Str("p1"), Str("p2")}
ImageBodies ==
  { [hasFiles |-> FALSE, files |-> <<>>, productId |-> p] :
      p \in ProductIdInputs } \cup
  { [hasFiles |-> TRUE, files |-> f, productId |-> p] :
      f \in FileLists, p \in ProductIdInputs }

IdleImg ==
  [pc |-> "idle", requestNo |-> 0, productId |-> Undefined, files |-> <<>>,
   next |-> 1, results |-> <<>>, status |-> 0, onDisk |-> {}]

\* the files multer has written to the uploads directory before the handler
\* runs
WrittenByMulter(files) == {files[i] : i \in DOMAIN files}

\* is_primary: results.length === 0
IsPrimary(q) == Len(q.results) = 0

\* the request arrives: 400 without files or without productId
ImageStart(body) ==
  /\ ireq.pc \in {"idle", "done"}
  /\ ireq.requestNo < MaxImageRequests
  /\ LET q == [IdleImg EXCEPT !.requestNo = ireq.requestNo + 1,
                              !.productId = body.productId,
                              !.files = body.files,
                              !.onDisk = WrittenByMulter(body.files)]
     IN ireq' =
          IF ~body.hasFiles \/ Len(body.files) = 0
          THEN [q EXCEPT !.pc = "done", !.status = 400]
          ELSE IF ~Truthy(body.productId)
          THEN [q EXCEPT !.pc = "done", !.status = 400]
          ELSE [q EXCEPT !.pc = "uploading"]
  /\ UNCHANGED product_images

\* One turn of the loop over the files: readFileSync and uploadFile, the
\* insert into product_images, results.push(success), unlinkSync.  Whatever
\* throws is caught and pushes an error result; a throw of unlinkSync comes
\* after the success result was pushed.  After the last file the results
\* are sent.  onDisk is the temporary files of the request still in the
\* uploads directory: unlinkSync is reached only after a successful insert.
ImageFile(uploadOk, insertOk, unlinkOk) ==
  /\ ireq.pc = "uploading"
  /\ LET file == ireq.files[ireq.next]
         stored == uploadOk /\ insertOk
         row == [product_id |-> ireq.productId.str, alt_text |-> file,
                 is_primary |-> IsPrimary(ireq), request |-> ireq.requestNo]
         pushed == IF ~stored
                   THEN <<[filename |-> file, status |-> "error"]>>
                   ELSE IF unlinkOk
                   THEN <<[filename |-> file, status |-> "success"]>>
                   ELSE <<[filename |-> file, status |-> "success"],
                          [filename |-> file, status |-> "error"]>>
         last == ireq.next = Len(ireq.files)
     IN /\ product_images' = IF stored THEN Append(product_images, row)
                             ELSE product_images
        /\ ireq' = [ireq EXCEPT !.results = @ \o pushed,
                                !.onDisk = IF stored /\ unlinkOk
                                           THEN @ \ {file} ELSE @,
                                !.next = @ + 1,
                                !.pc = IF last THEN "done" ELSE "uploading",
                                !.status = IF last THEN 200 ELSE @]

\* no image upload is being handled and the table is empty
InitImgIdle ==
  /\ product_images = <<>>
  /\ ireq = IdleImg

\* ------------------------------------------------------------------------
\* routes/auth.js: POST /register and POST /login
\* ------------------------------------------------------------------------
\* The users table is reached through pool.query only; its definition is
\* not part of the sources, so whether the email column carries a unique
\* constraint is a property of the deployment (emailUnique), fixed in the
\* initial state.  A handler is split at its awaits, so that the statements
\* of concurrent requests interleave.

\* most requests the auth router handles in one behaviour
MaxAuthRequests == 2

VARIABLES
  users,        \* the rows of the users table, in insertion order
  areq,         \* the requests of the auth router, by slot
  emailUnique   \* whether the table rejects a second row with an email

authVars == <<users, areq, emailUnique>>

AuthSlots == 1..MaxAuthRequests

EmailInputs == {Undefined, Str("a@x"), Str("b@x"), Str("c@x")}
PasswordInputs == {Undefined, Str("pw1"), Str("pw2")}
AuthBodies ==
  {[email |-> e, password |-> p] : e \in EmailInputs, p \in PasswordInputs}

\* bcrypt.hash(password, saltRounds): a value that is not the password and
\* that bcrypt.compare matches against that password only
Hash(password) == [bcrypt |-> password]

\* bcrypt.compare(password, hash)
Compare(password, hash) == hash = Hash(password)

\* the response of a handler: res.status(code).json(...)
AuthError(code, text) ==
  [status |-> code, error |-> text, message |-> "", token |-> <<>>]

\* jwt.sign({ userId, email }, secret): the claims the token carries
Sign(user) == [userId |-> user.id, email |-> user.email]

LoginSuccess(user) ==
  [status |-> 200, error |-> "", message |-> "Login successful",
   token |-> <<Sign(user)>>]

RegisterSuccess ==
  [status |-> 201, error |-> "", message |-> "User created successfully",
   token |-> <<>>]

NoResponse == [status |-> 0, error |-> "", message |-> "", token |-> <<>>]

IdleAuth ==
  [pc |-> "idle", route |-> "", email |-> Undefined, password |-> Undefined,
   passwordHash |-> <<>>, user |-> <<>>, response |-> NoResponse,
   hadRecord |-> FALSE, dbFailed |-> FALSE, inserted |-> FALSE,
   usersAtFind |-> <<>>]

\* SELECT id FROM users WHERE email = $1
RowsByEmail(email) ==
  {i \in DOMAIN users : users[i].email = email.str}

\* SELECT ... FROM users WHERE email = $1 AND is_active = true
ActiveRowsByEmail(email) ==
  {i \in DOMAIN users : users[i].email = email.str /\ users[i].is_active}

\* the catch block of a handler: 500 with the generic message
AuthCatch(a) ==
  [a EXCEPT !.pc = "done", !.dbFailed = TRUE,
            !.response = AuthError(500, "Internal server error")]

\* POST /register up to its first await: the input validation
RegisterStart(s, body) ==
  /\ areq[s].pc = "idle"
  /\ \A t \in AuthSlots : t < s => areq[t].pc # "idle"
  /\ LET a == [IdleAuth EXCEPT !.route = "register", !.email = body.email,
                               !.password = body.password]
     IN areq' = [areq EXCEPT ![s] =
          IF ~Truthy(body.email) \/ ~Truthy(body.password)
          THEN [a EXCEPT !.pc = "done",
                         !.response =
                           AuthError(400, "Email and password are required")]
          ELSE [a EXCEPT !.pc = "select"]]
  /\ UNCHANGED <<users, emailUnique>>

\* the SELECT of POST /register returns: 409 when a row has the email
RegisterSelect(s, queryOk) ==
  /\ areq[s].pc = "select" /\ areq[s].route = "register"
  /\ LET a == areq[s]
         exists == RowsByEmail(a.email) # {}
     IN areq' = [areq EXCEPT ![s] =
          IF ~queryOk THEN AuthCatch(a)
          ELSE IF exists
          THEN [a EXCEPT !.pc = "done", !.hadRecord = TRUE,
                         !.response = AuthError(409, "User already exists")]
          ELSE [a EXCEPT !.pc = "hash"]]
  /\ UNCHANGED <<users, emailUnique>>

\* bcrypt.hash returns
RegisterHash(s) ==
  /\ areq[s].pc = "hash"
  /\ areq' = [areq EXCEPT ![s].pc = "insert",
                          ![s].passwordHash = <<Hash(areq[s].password.str)>>]
  /\ UNCHANGED <<users, emailUnique>>

\* the INSERT of POST /register returns: 201 with the new row; a rejected
\* statement is caught and answered 500
RegisterInsert(s, queryOk) ==
  /\ areq[s].pc = "insert"
  /\ LET a == areq[s]
         exists == RowsByEmail(a.email) # {}
         rejected == ~queryOk \/ (emailUnique /\ exists)
         row == [id |-> Len(users) + 1, email |-> a.email.str,
                 password_hash |-> a.passwordHash[1], is_active |-> TRUE]
     IN /\ users' = IF rejected THEN users ELSE Append(users, row)
        /\ areq' = [areq EXCEPT ![s] =
             IF rejected
             THEN [AuthCatch(a) EXCEPT !.hadRecord = exists,
                                       !.dbFailed = ~queryOk]
             ELSE [a EXCEPT !.pc = "done", !.hadRecord = exists,
                            !.inserted = TRUE,
                            !.response = RegisterSuccess]]
  /\ UNCHANGED emailUnique

\* POST /login up to its first await: the input validation
LoginStart(s, body) ==
  /\ areq[s].pc = "idle"
  /\ \A t \in AuthSlots : t < s => areq[t].pc # "idle"
  /\ LET a == [IdleAuth EXCEPT !.route = "login", !.email = body.email,
                               !.password = body.password]
     IN areq' = [areq EXCEPT ![s] =
          IF ~Truthy(body.email) \/ ~Truthy(body.password)
          THEN [a EXCEPT !.pc = "done",
                         !.response =
                           AuthError(400, "Email and password are required")]
          ELSE [a EXCEPT !.pc = "find"]]
  /\ UNCHANGED <<users, emailUnique>>

\* the SELECT of POST /login returns: 401 when no active row has the
\* email, else user = result.rows[0] (the statement has no ORDER BY)
LoginFind(s, queryOk) ==
  /\ areq[s].pc = "find"
  /\ LET a == [areq[s] EXCEPT !.usersAtFind = users]
         rows == ActiveRowsByEmail(a.email)
     IN \/ /\ ~queryOk
           /\ areq' = [areq EXCEPT ![s] = AuthCatch(a)]
        \/ /\ queryOk /\ rows = {}
           /\ areq' = [areq EXCEPT ![s] =
                [a EXCEPT !.pc = "done",
                          !.response = AuthError(401, "Invalid credentials")]]
        \/ /\ queryOk
           /\ \E i \in rows :
                areq' = [areq EXCEPT ![s] =
                  [a EXCEPT !.pc = "compare", !.user = <<users[i]>>]]
  /\ UNCHANGED <<users, emailUnique>>

\* bcrypt.compare returns: 401 on a mismatch, else the token is signed and
\* sent
LoginCompare(s) ==
  /\ areq[s].pc = "compare"
  /\ LET a == areq[s]
         user == a.user[1]
         isValidPassword == Compare(a.password.str, user.password_hash)
     IN areq' = [areq EXCEPT ![s] =
          IF ~isValidPassword
          THEN [a EXCEPT !.pc = "done",
                         !.response = AuthError(401, "Invalid credentials")]
          ELSE [a EXCEPT !.pc = "done", !.response = LoginSuccess(user)]]
  /\ UNCHANGED <<users, emailUnique>>

\* the accounts that exist before the first request: a@x is active, b@x has
\* been deactivated
InitialUsers ==
  <<[id |-> 1, email |-> "a@x", password_hash |-> Hash("pw1"),
     is_active |-> TRUE],
    [id |-> 2, email |-> "b@x", password_hash |-> Hash("pw1"),
     is_active |-> FALSE]>>

\* no request of the auth router is being handled
InitAuthIdle ==
  /\ users = InitialUsers
  /\ areq = [s \in AuthSlots |-> IdleAuth]
  /\ emailUnique = FALSE

\* ------------------------------------------------------------------------
\* ingest_products.ts: chunkText
\* ------------------------------------------------------------------------
\* A text is the sequence text.split(' ') yields: its words, where "" is the
\* empty word a second space in a row (or a space at either end) produces.
\* A chunk is the sequence of the words of the string pushed; the empty
\* string is the empty sequence.

\* most words of a text
MaxWords == 4
\* largest chunkSize
MaxChunkSize == 3

VARIABLES
  words,        \* text.split(' ')
  chunkSize,    \* the parameters of the call
  overlap,
  chunkI,       \* the loop variable i (0-based)
  chunks,       \* the array returned
  chunkStarts,  \* history: the value of i each chunk was pushed at
  chunkPc       \* "loop" or "returned"

chunkVars ==
  <<words, chunkSize, overlap, chunkI, chunks, chunkStarts, chunkPc>>

WordPool == {"a", "b", ""}

Texts == UNION {[1..n -> WordPool] : n \in 1..MaxWords}

\* a slice that takes the word at index to as well
SliceInclusive(ws, from, to) ==
  LET hi == IF to + 1 < Len(ws) THEN to + 1 ELSE Len(ws)
  IN IF from >= hi THEN <<>> ELSE [k \in 1..(hi - from) |-> ws[from + k]]

\* words.slice(from, to), both 0-based, to exclusive
Slice(ws, from, to) ==
  LET hi == IF to < Len(ws) THEN to ELSE Len(ws)
  IN IF from >= hi THEN <<>> ELSE [k \in 1..(hi - from) |-> ws[from + k]]

\* s.trim() of the string ws.join(' '): the empty words at both ends go
\* with the spaces around them
RECURSIVE Trim(_)
Trim(ws) ==
  IF ws = <<>> THEN <<>>
  ELSE IF ws[1] = "" THEN Trim(Tail(ws))
  ELSE IF ws[Len(ws)] = "" THEN Trim(SubSeq(ws, 1, Len(ws) - 1))
  ELSE ws

\* one iteration of the for loop: the window is joined and pushed trimmed
\* unless it holds only spaces
ChunkIteration ==
  /\ chunkPc = "loop"
  /\ chunkI < Len(words)
  /\ LET chunk == Slice(words, chunkI, chunkI + chunkSize)
         push == Len(Trim(chunk)) > 0
     IN /\ chunks' = IF push THEN Append(chunks, Trim(chunk)) ELSE chunks
        /\ chunkStarts' = IF push THEN Append(chunkStarts, chunkI)
                          ELSE chunkStarts
  /\ chunkI' = chunkI + (chunkSize - overlap)
  /\ UNCHANGED <<words, chunkSize, overlap, chunkPc>>

\* the loop condition fails: return chunks
ChunkReturn ==
  /\ chunkPc = "loop"
  /\ ~(chunkI < Len(words))
  /\ chunkPc' = "returned"
  /\ UNCHANGED <<words, chunkSize, overlap, chunkI, chunks, chunkStarts>>

\* no call of chunkText is in progress
InitChunkIdle ==
  /\ words = <<"">>
  /\ chunkSize = 1
  /\ overlap = 0
  /\ chunkI = 0
  /\ chunks = <<>>
  /\ chunkStarts = <<>>
  /\ chunkPc = "returned"

\* ------------------------------------------------------------------------
\* ingest_products.ts: processProduct and the loop of main
\* ------------------------------------------------------------------------

\* most products of the input file
MaxFileProducts == 2

VARIABLES
  dbProducts,    \* rows of the products table the scripts work on
  dbEmbeddings,  \* rows of the embeddings table the scripts work on
  ingFile,       \* the array loadProductsFromFile returned
  ingI,          \* the loop variable i of main (0-based)
  ingPc,         \* "product", "batch" or "complete"
  ingChunks,     \* chunks of the product being processed
  ingBatchI,     \* the loop variable i of the batch loop
  attempts,      \* history: the file indices processProduct was called with
  outcomes       \* history: how each of these calls ended

scriptDb == <<dbProducts, dbEmbeddings>>
ingVars == <<ingFile, ingI, ingPc, ingChunks, ingBatchI, attempts, outcomes>>

\* the whole of chunkText, as the loop above computes it
RECURSIVE ChunkTextFrom(_, _, _, _)
ChunkTextFrom(ws, size, ov, i) ==
  IF ~(i < Len(ws)) THEN <<>>
  ELSE LET chunk == Trim(Slice(ws, i, i + size))
       IN (IF Len(chunk) > 0 THEN <<chunk>> ELSE <<>>)
          \o ChunkTextFrom(ws, size, ov, i + (size - ov))

\* chunkText(text) with the default chunkSize and overlap
ChunkText(ws) == ChunkTextFrom(ws, 500, 100, 0)

batchSize == 10

\* `Q: ${faq.question}\nA: ${faq.answer}` split at its spaces
FaqText == <<"Q:", "q\nA:", "a">>

\* products of the input file: with and without a description, and with
\* enough FAQs for a second batch
ProductDataPool ==
  {[name |-> "plate", description |-> <<"a", "b">>, faqs |-> 0],
   [name |-> "bowl", description |-> <<>>, faqs |-> 0],
   [name |-> "cup", description |-> <<"a">>, faqs |-> 11]}

ProductFiles == UNION {[1..n -> ProductDataPool] : n \in 0..MaxFileProducts}

\* the chunks processProduct builds for a product row: those of the
\* description, if there is one, then those of each FAQ
ChunksOfProduct(productData, id) ==
  LET descriptionChunks ==
        IF productData.description # <<>>
        THEN ChunkText(productData.description) ELSE <<>>
      faqChunks == ChunkText(FaqText)
  IN [k \in 1..Len(descriptionChunks) |->
        [product_id |-> id, source_type |-> "description",
         text_snippet |-> descriptionChunks[k], run |-> 0]]
     \o [k \in 1..(productData.faqs * Len(faqChunks)) |->
          [product_id |-> id, source_type |-> "faq",
           text_snippet |-> faqChunks[1], run |-> 0]]

\* main after processProduct threw: the error is logged and the loop goes on
\* with the next product
AfterFailureExit(i) == [i |-> i, pc |-> "complete"]

AfterFailure(i) == [i |-> i + 1, pc |-> "product"]

\* one turn of the loop of main up to the first await that does not fail
\* at once: processProduct is called, the product row is inserted and the
\* chunks are built
IngestProduct(insertOk) ==
  /\ ingPc = "product"
  /\ ingI < Len(ingFile)
  /\ LET productData == ingFile[ingI + 1]
         id == Len(dbProducts) + 1
         built == ChunksOfProduct(productData, id)
     IN /\ attempts' = Append(attempts, ingI + 1)
        /\ dbProducts' = IF insertOk
                         THEN Append(dbProducts,
                                     [id |-> id, name |-> productData.name])
                         ELSE dbProducts
        /\ IF ~insertOk
           THEN /\ ingI' = AfterFailure(ingI).i
                /\ ingPc' = AfterFailure(ingI).pc
                /\ outcomes' = Append(outcomes, "failed")
                /\ UNCHANGED <<ingChunks, ingBatchI>>
           ELSE IF Len(built) = 0
           THEN /\ ingI' = ingI + 1
                /\ outcomes' = Append(outcomes, "processed")
                /\ UNCHANGED <<ingPc, ingChunks, ingBatchI>>
           ELSE /\ ingPc' = "batch"
                /\ ingChunks' = built
                /\ ingBatchI' = 0
                /\ UNCHANGED <<ingI, outcomes>>
  /\ UNCHANGED <<dbEmbeddings, ingFile>>

\* one turn of the batch loop: getEmbeddings, then the insert of the
\* records; either failing throws out of processProduct
IngestBatch(embedOk, insertOk) ==
  /\ ingPc = "batch"
  /\ LET batch == Slice(ingChunks, ingBatchI, ingBatchI + batchSize)
         ok == embedOk /\ insertOk
         last == ~(ingBatchI + batchSize < Len(ingChunks))
     IN /\ dbEmbeddings' = IF ok THEN dbEmbeddings \o batch ELSE dbEmbeddings
        /\ IF ~ok
           THEN /\ ingI' = AfterFailure(ingI).i
                /\ ingPc' = AfterFailure(ingI).pc
                /\ outcomes' = Append(outcomes, "failed")
                /\ UNCHANGED ingBatchI
           ELSE IF last
           THEN /\ ingI' = ingI + 1
                /\ ingPc' = "product"
                /\ outcomes' = Append(outcomes, "processed")
                /\ UNCHANGED ingBatchI
           ELSE /\ ingBatchI' = ingBatchI + batchSize
                /\ UNCHANGED <<ingI, ingPc, outcomes>>
  /\ UNCHANGED <<dbProducts, ingFile, ingChunks, attempts>>

\* the loop of main ends: 'Ingestion Complete'
IngestComplete ==
  /\ ingPc = "product"
  /\ ~(ingI < Len(ingFile))
  /\ ingPc' = "complete"
  /\ UNCHANGED <<dbProducts, dbEmbeddings, ingFile, ingI, ingChunks,
                 ingBatchI, attempts, outcomes>>

\* the ingestion script is not running
InitIngestIdle ==
  /\ ingFile = <<>>
  /\ ingI = 0
  /\ ingPc = "complete"
  /\ ingChunks = <<>>
  /\ ingBatchI = 0
  /\ attempts = <<>>
  /\ outcomes = <<>>

\* the tables of the scripts are empty
InitScriptDbIdle ==
  /\ dbProducts = <<>>
  /\ dbEmbeddings = <<>>

\* ------------------------------------------------------------------------
\* generate_embeddings.js: generateEmbeddingsForProducts
\* ------------------------------------------------------------------------

\* most runs of the script
MaxRuns == 2
\* products in the table when the script runs
MaxScriptProducts == 2

VARIABLES
  genRun,       \* the number of the current run, 0 before the first
  genProducts,  \* the ids of the products the run fetched
  genI,         \* index of the product of the for loop in genProducts
  genPc,        \* "idle", "check", a source type, or "finished"
  genLog,       \* history: per run, what failed and how the table started
  genSkipped    \* history: <<run, id>> of the products skipped as embedded

genVars == <<genRun, genProducts, genI, genPc, genLog, genSkipped>>

SourceTypes == <<"description", "specification", "product_info">>

ScriptProducts ==
  [id \in 1..MaxScriptProducts |-> [id |-> id, name |-> "product"]]

\* select('id').eq('product_id', id) on the embeddings table
EmbeddingsOf(id) ==
  {k \in DOMAIN dbEmbeddings : dbEmbeddings[k].product_id = id}

\* a check that never finds an embedding
NeverExisting(id) == FALSE

\* existingEmbeddings && existingEmbeddings.length > 0
ExistingEmbeddings(id) == EmbeddingsOf(id) # {}

\* the rows of a product with one source type
EmbeddingsOfType(id, type) ==
  {k \in EmbeddingsOf(id) : dbEmbeddings[k].source_type = type}

\* the product has no embedding, or exactly one of each source type
ConsistentlyEmbedded(id) ==
  \/ EmbeddingsOf(id) = {}
  \/ /\ Cardinality(EmbeddingsOf(id)) = 3
     /\ \A t \in DOMAIN SourceTypes :
          Cardinality(EmbeddingsOfType(id, SourceTypes[t])) = 1

\* the for loop moves to the next product, or past the last one
GenContinue ==
  /\ genI' = genI + 1
  /\ genPc' = IF genI + 1 > Len(genProducts) THEN "finished" ELSE "check"

\* a call of this run failed
GenCallFailed ==
  genLog' = [genLog EXCEPT ![genRun].callFailed = TRUE]

\* the script starts: the products are fetched; an error there is thrown to
\* the outer catch, which ends the run
GenStart(fetchOk) ==
  /\ genPc \in {"idle", "finished"}
  /\ genRun < MaxRuns
  /\ genRun' = genRun + 1
  /\ genLog' = Append(genLog,
       [callFailed |-> ~fetchOk, insertFailed |-> FALSE,
        startedConsistent |->
          \A k \in DOMAIN dbProducts : ConsistentlyEmbedded(dbProducts[k].id)])
  /\ genProducts' = IF fetchOk
                    THEN [k \in DOMAIN dbProducts |-> dbProducts[k].id]
                    ELSE <<>>
  /\ genI' = 1
  /\ genPc' = IF fetchOk /\ Len(dbProducts) > 0 THEN "check" ELSE "finished"
  /\ UNCHANGED <<dbProducts, dbEmbeddings, genSkipped>>

\* the check for existing embeddings of the product returns
GenCheck(checkOk) ==
  /\ genPc = "check"
  /\ LET id == genProducts[genI]
     IN IF ~checkOk
        THEN GenContinue /\ GenCallFailed /\ UNCHANGED genSkipped
        ELSE IF ExistingEmbeddings(id)
        THEN /\ GenContinue
             /\ genSkipped' = genSkipped \cup {<<genRun, id>>}
             /\ UNCHANGED genLog
        ELSE /\ genPc' = SourceTypes[1]
             /\ UNCHANGED <<genI, genLog, genSkipped>>
  /\ UNCHANGED <<dbProducts, dbEmbeddings, genRun, genProducts>>

\* getEmbedding and the insert of source type SourceTypes[t]: a failed
\* embedding request is caught and the loop continues with the next
\* product, a failed insert is logged and the product goes on
GenEmbedAndInsert(t, embedOk, insertOk) ==
  /\ genPc = SourceTypes[t]
  /\ LET id == genProducts[genI]
         row == [product_id |-> id, source_type |-> SourceTypes[t],
                 text_snippet |-> <<SourceTypes[t]>>, run |-> genRun]
     IN IF ~embedOk
        THEN GenContinue /\ GenCallFailed /\ UNCHANGED dbEmbeddings
        ELSE /\ dbEmbeddings' = IF insertOk THEN Append(dbEmbeddings, row)
                                ELSE dbEmbeddings
             /\ genLog' = IF insertOk THEN genLog
                          ELSE [genLog EXCEPT ![genRun].insertFailed = TRUE]
             /\ IF t < Len(SourceTypes)
                THEN genPc' = SourceTypes[t + 1] /\ UNCHANGED genI
                ELSE GenContinue
  /\ UNCHANGED <<dbProducts, genRun, genProducts, genSkipped>>

\* the script has not been started
InitGenIdle ==
  /\ genRun = 0
  /\ genProducts = <<>>
  /\ genI = 1
  /\ genPc = "idle"
  /\ genLog = <<>>
  /\ genSkipped = {}

\* ------------------------------------------------------------------------
\* ChatWidget and the demo page that mounts it
\* ------------------------------------------------------------------------
\* The value of the textarea is the sequence of its words, as for chunkText:
\* <<>> is the empty string and <<"", "">> a single space.  The handlers are
\* taken as callable at any time; the disabled attributes of the textarea
\* and of the button only keep some of these events away.  React re-renders
\* after each event, so a handler reads the state the event before it left.

\* most requests one widget sends
MaxSends == 2
\* last value of the clock
MaxNow == 2

VARIABLES
  inputValue,     \* state of the widget
  widgetMessages,
  isLoading,
  widgetSessionId,
  onSendMessage,  \* whether the prop is passed (the demo page passes it)
  now,            \* Date.now()
  inFlight,       \* the requests sent and not yet answered
  sentRequests,   \* history: the bodies of the requests sent
  widgetEvent     \* history: the last event handled

widgetVars ==
  <<inputValue, widgetMessages, isLoading, widgetSessionId, onSendMessage, now,
    inFlight, sentRequests, widgetEvent>>

InputValues == {<<>>, <<"", "">>, <<"hi">>, <<"", "hi", "">>}

\* `session_${Date.now()}_${random}` of the widget, once per mount
NewSessionId(t) == [prefix |-> "session", at |-> t]

\* `demo_${Date.now()}` of ChatDemo.handleSendMessage
DemoSessionId(t) == [prefix |-> "demo", at |-> t]

\* a guard that looks at the input only
InputNotBlank == Len(Trim(inputValue)) > 0

\* handleSubmit goes on: !(!inputValue.trim() || isLoading)
SubmitGoesOn == Len(Trim(inputValue)) > 0 /\ ~isLoading

\* the body of the request: onSendMessage of the demo page, or the default
\* API call
RequestBody(messageContent) ==
  [message |-> messageContent,
   sessionId |-> IF onSendMessage THEN DemoSessionId(now) ELSE widgetSessionId]

\* handleSubmit up to its await
handleSubmit(event) ==
  /\ widgetEvent' = event
  /\ IF ~SubmitGoesOn
     THEN UNCHANGED <<inputValue, widgetMessages, isLoading, inFlight,
                      sentRequests>>
     ELSE LET messageContent == Trim(inputValue)
          IN /\ Len(sentRequests) < MaxSends
             /\ widgetMessages' =
                  Append(widgetMessages,
                         [role |-> "user", content |-> messageContent])
             /\ inputValue' = <<>>
             /\ isLoading' = TRUE
             /\ inFlight' = Append(inFlight, RequestBody(messageContent))
             /\ sentRequests' =
                  Append(sentRequests, RequestBody(messageContent))
  /\ UNCHANGED <<widgetSessionId, onSendMessage, now>>

\* the submit event of the form (the send button)
SubmitForm == handleSubmit("submit")

\* handleKeyPress: Enter without shift submits, any other key does nothing
KeyPress(enter, shiftKey) ==
  IF enter /\ ~shiftKey
  THEN handleSubmit("enter")
  ELSE /\ widgetEvent' = "key"
       /\ UNCHANGED <<inputValue, widgetMessages, isLoading, widgetSessionId,
                      onSendMessage, now, inFlight, sentRequests>>

\* onChange of the textarea
Change(v) ==
  /\ inputValue' = v
  /\ widgetEvent' = "change"
  /\ UNCHANGED <<widgetMessages, isLoading, widgetSessionId, onSendMessage, now,
                 inFlight, sentRequests>>

\* the request returns or fails: the answer or the apology is appended and
\* finally isLoading is cleared
RequestSettles(ok) ==
  /\ inFlight # <<>>
  /\ \E k \in DOMAIN inFlight :
       inFlight' = [j \in 1..(Len(inFlight) - 1) |->
                      IF j < k THEN inFlight[j] ELSE inFlight[j + 1]]
  /\ widgetMessages' =
       Append(widgetMessages,
              [role |-> "assistant",
               content |-> IF ok THEN <<"answer">> ELSE <<"Sorry">>])
  /\ isLoading' = FALSE
  /\ widgetEvent' = "settled"
  /\ UNCHANGED <<inputValue, widgetSessionId, onSendMessage, now, sentRequests>>

\* time passes
Tick ==
  /\ now < MaxNow
  /\ now' = now + 1
  /\ UNCHANGED <<inputValue, widgetMessages, isLoading, widgetSessionId,
                 onSendMessage, inFlight, sentRequests, widgetEvent>>

\* no widget is in use
InitWidgetIdle ==
  /\ inputValue = <<>>
  /\ widgetMessages = <<>>
  /\ isLoading = FALSE
  /\ widgetSessionId = NewSessionId(0)
  /\ onSendMessage = FALSE
  /\ now = 0
  /\ inFlight = <<>>
  /\ sentRequests = <<>>
  /\ widgetEvent = "mount"

\* the variables of the parts modelled above that the other specifications
\* leave alone
restVars == <<authVars, chunkVars, scriptDb, ingVars, genVars, widgetVars>>

InitRestIdle ==
  /\ InitAuthIdle /\ InitChunkIdle /\ InitScriptDbIdle /\ InitIngestIdle
  /\ InitGenIdle /\ InitWidgetIdle

\* ------------------------------------------------------------------------
\* chatCompletionStream: the reader of the server-sent-event body
\* ------------------------------------------------------------------------
\* The body is a sequence of text tokens; a read hands over some of them.
\* "data:" followed by " " is the prefix 'data: ', "[" followed by "DONE]"
\* is '[DONE]', and "{" c "}" is the JSON text of a delta whose content is c
\* ("{" "}" is a delta without content).

\* most reads the body arrives in
MaxReads == 3

VARIABLES
  sseBody,    \* history: the whole body the completion API sends
  sseReads,   \* the values reader.read() has still to return
  buffer,     \* the local buffer of chatCompletionStream
  onChunkCalls, \* history: the arguments onChunk was called with, in order
  ssePc       \* "idle", "reading", "returned"

sseVars == <<sseBody, sseReads, buffer, onChunkCalls, ssePc>>

DataPrefix == <<"data:", " ">>
DoneText == <<"[", "DONE]">>
Newline == <<"\n">>
DeltaJson(c) == <<"{", c, "}">>

\* buffer.split('\n')
RECURSIVE SplitLines(_)
SplitLines(text) ==
  IF \A k \in DOMAIN text : text[k] # "\n" THEN <<text>>
  ELSE LET k == CHOOSE k \in DOMAIN text :
                  text[k] = "\n" /\ \A j \in 1..(k - 1) : text[j] # "\n"
       IN <<SubSeq(text, 1, k - 1)>> \o SplitLines(SubSeq(text, k + 1, Len(text)))

\* line.startsWith('data: ')
StartsWithData(line) ==
  Len(line) >= Len(DataPrefix) /\ SubSeq(line, 1, Len(DataPrefix)) = DataPrefix

\* JSON.parse(data) and parsed.choices?.[0]?.delta?.content: the content,
\* "" when the delta has none, and ok = FALSE when JSON.parse throws
ParseDelta(data) ==
  IF Len(data) = 3 /\ data[1] = "{" /\ data[3] = "}"
       /\ data[2] \notin {"{", "}"}
  THEN [ok |-> TRUE, content |-> data[2]]
  ELSE IF data = <<"{", "}">> THEN [ok |-> TRUE, content |-> ""]
  ELSE [ok |-> FALSE, content |-> ""]

\* the calls one data line makes: onChunk(content) for a truthy content
CallsOf(data) ==
  LET parsed == ParseDelta(data)
  IN IF parsed.ok /\ parsed.content # "" THEN <<parsed.content>> ELSE <<>>

\* for (const line of lines) { ... }: the calls made, and whether the loop
\* left the function at a '[DONE]' line
RECURSIVE ProcessLines(_, _)
ProcessLines(lines, calls) ==
  IF lines = <<>> THEN [calls |-> calls, returned |-> FALSE]
  ELSE LET line == Head(lines)
           data == SubSeq(line, Len(DataPrefix) + 1, Len(line))
       IN IF ~StartsWithData(line) THEN ProcessLines(Tail(lines), calls)
          ELSE IF data = DoneText THEN [calls |-> calls, returned |-> TRUE]
          ELSE ProcessLines(Tail(lines), calls \o CallsOf(data))

\* variant: what follows the last newline of a read is thrown away
RemainderDropped(lines) == <<>>

\* buffer = lines.pop() || ''
Remainder(lines) == lines[Len(lines)]

\* One turn of the while loop with a value: the value is appended to the
\* buffer, the complete lines are processed and the rest is kept.
SseRead ==
  /\ ssePc = "reading"
  /\ sseReads # <<>>
  /\ LET lines == SplitLines(buffer \o Head(sseReads))
         res == ProcessLines(SubSeq(lines, 1, Len(lines) - 1), onChunkCalls)
     IN /\ buffer' = Remainder(lines)
        /\ onChunkCalls' = res.calls
        /\ ssePc' = IF res.returned THEN "returned" ELSE "reading"
  /\ sseReads' = Tail(sseReads)
  /\ UNCHANGED sseBody

\* reader.read() reports done: the loop is left and the function returns
SseDone ==
  /\ ssePc = "reading"
  /\ sseReads = <<>>
  /\ ssePc' = "returned"
  /\ UNCHANGED <<sseBody, sseReads, buffer, onChunkCalls>>

\* ------------------------------------------------------------------------
\* The messages router (routes/messages.ts over Supabase, routes/messages.js
\* over pg) and DELETE /:id of the conversations router
\* ------------------------------------------------------------------------
\* most rows ever inserted in the messages table in the model
MaxMessages == 1

VARIABLES
  convs,      \* conversations table: rows [id, user_id]
  messages,   \* messages table: rows [id, conversation_id, role, content]
  nextId,     \* the serial that numbers the next inserted message
  nextConvId, \* the number the next created conversation gets in its id
  impl,       \* the router in service: "ts" (Supabase) or "js" (pg)
  mreq,       \* the request the router is handling, its locals, its response
  posted,     \* history: the messages for which POST / has answered 201
  touched     \* history: ids of messages updated or deleted since

msgVars == <<convs, messages, nextId, nextConvId, impl, mreq, posted, touched>>

vars == <<req, conversations, products, embeddings, envConfigured,
          convs, messages, nextId, nextConvId, impl, mreq, posted, touched,
          sseBody, sseReads, buffer, onChunkCalls, ssePc,
          product_images, ireq,
          users, areq, emailUnique,
          words, chunkSize, overlap, chunkI, chunks, chunkStarts, chunkPc,
          dbProducts, dbEmbeddings, ingFile, ingI, ingPc, ingChunks,
          ingBatchI, attempts, outcomes,
          genRun, genProducts, genI, genPc, genLog, genSkipped,
          inputValue, widgetMessages, isLoading, widgetSessionId,
          onSendMessage, now, inFlight, sentRequests, widgetEvent>>

ValidRoles == {"user", "assistant", "system"}

Users == {Undefined, Str("u1"), Str("u2")}
ConvInputs == {Undefined, Str("c1"), Str("c2")}
RoleInputs == {Undefined, Str("user"), Str("system"), Str("admin")}
ContentInputs == {Undefined, Str(""), Str("hi")}
MsgIdInputs == 1..(MaxMessages + 1)

IdleMsg ==
  [op |-> "none", pc |-> "idle", user |-> Undefined,
   conversationId |-> Undefined, messageId |-> 0,
   role |-> Undefined, content |-> Undefined,
   title |-> Undefined,
   status |-> 0, list |-> <<>>, data |-> <<>>, nQueries |-> 0, nWrites |-> 0,
   removed |-> 0]

MsgRespond(q, code) == [q EXCEPT !.status = code, !.pc = "done"]

\* the handler sends a statement to the database and awaits its result
Issue(q, pc) == [q EXCEPT !.pc = pc, !.nQueries = @ + 1]

\* variant: any string passes as a role
RoleIncludedAnyString(role) == role.kind = "string"

\* ['user', 'assistant', 'system'].includes(role)
RoleIncluded(role) == role.kind = "string" /\ role.str \in ValidRoles

\* variant: the body is validated before the caller is looked at
PostPrecheckBodyFirst(user, conversationId, role, content) ==
  IF ~Truthy(conversationId) \/ ~Truthy(role) \/ ~Truthy(content)
  THEN 400
  ELSE IF ~RoleIncluded(role) THEN 400
  ELSE IF ~Truthy(user) THEN 401
  ELSE 0

\* status of the checks made before the first query of POST /; 0 when the
\* request passes them
PostPrecheck(user, conversationId, role, content) ==
  IF ~Truthy(user) THEN 401
  ELSE IF ~Truthy(conversationId) \/ ~Truthy(role) \/ ~Truthy(content)
       THEN 400
  ELSE IF ~RoleIncluded(role) THEN 400
  ELSE 0

\* the conversation exists and belongs to the user
OwnsConversation(user, conversationId) ==
  \E c \in convs : c.id = conversationId.str /\ c.user_id = user.str

\* the message exists and its conversation belongs to the user (inner join)
OwnsMessage(user, id) ==
  \E m \in messages :
    /\ m.id = id
    /\ \E c \in convs : c.id = m.conversation_id /\ c.user_id = user.str

\* variant: the role column is left to its default
InsertedRowDefaultRole(id, conversationId, role, content) ==
  [id |-> id, conversation_id |-> conversationId.str, role |-> "user",
   content |-> content.str]

\* the row POST / inserts
InsertedRow(id, conversationId, role, content) ==
  [id |-> id, conversation_id |-> conversationId.str, role |-> role.str,
   content |-> content.str]

\* select id, role, content ... where conversation_id = $1 order by created_at
RECURSIVE RowsFrom(_, _)
RowsFrom(id, conversationId) ==
  IF id >= nextId THEN <<>>
  ELSE (IF \E m \in messages : m.id = id /\ m.conversation_id = conversationId
        THEN LET m == CHOOSE m \in messages : m.id = id
             IN <<[id |-> m.id, role |-> m.role, content |-> m.content]>>
        ELSE <<>>)
       \o RowsFrom(id + 1, conversationId)

MessagesOf(conversationId) == RowsFrom(1, conversationId)

\* GET /conversation/:conversationId arrives
GetStart(r, user, conversationId) ==
  /\ mreq[r].pc \in {"idle", "done"}
  /\ Truthy(conversationId)
  /\ LET q == [IdleMsg EXCEPT !.op = "get", !.user = user,
                              !.conversationId = conversationId]
     IN mreq' = [mreq EXCEPT ![r] = IF ~Truthy(user) THEN MsgRespond(q, 401)
                                    ELSE Issue(q, "check")]
  /\ UNCHANGED <<convs, messages, nextId, impl, nextConvId, posted, touched>>

\* POST / arrives
PostStart(r, user, conversationId, role, content) ==
  /\ mreq[r].pc \in {"idle", "done"}
  /\ nextId <= MaxMessages
  /\ LET q == [IdleMsg EXCEPT !.op = "post", !.user = user,
                              !.conversationId = conversationId,
                              !.role = role, !.content = content]
         code == PostPrecheck(user, conversationId, role, content)
     IN mreq' = [mreq EXCEPT ![r] = IF code # 0 THEN MsgRespond(q, code)
                                    ELSE Issue(q, "check")]
  /\ UNCHANGED <<convs, messages, nextId, impl, nextConvId, posted, touched>>

\* PUT /:id arrives
PutStart(r, user, id, content) ==
  /\ mreq[r].pc \in {"idle", "done"}
  /\ LET q == [IdleMsg EXCEPT !.op = "put", !.user = user,
                              !.messageId = id, !.content = content]
     IN mreq' = [mreq EXCEPT ![r] =
                   IF ~Truthy(user) THEN MsgRespond(q, 401)
                   ELSE IF ~Truthy(content) THEN MsgRespond(q, 400)
                   ELSE Issue(q, "check")]
  /\ UNCHANGED <<convs, messages, nextId, impl, nextConvId, posted, touched>>

\* DELETE /:id of the messages router arrives
DeleteStart(r, user, id) ==
  /\ mreq[r].pc \in {"idle", "done"}
  /\ LET q == [IdleMsg EXCEPT !.op = "delete", !.user = user,
                              !.messageId = id]
     IN mreq' = [mreq EXCEPT ![r] = IF ~Truthy(user) THEN MsgRespond(q, 401)
                                    ELSE Issue(q, "check")]
  /\ UNCHANGED <<convs, messages, nextId, impl, nextConvId, posted, touched>>

\* The ownership query of a request is answered.  A failed query leaves
\* data null in messages.ts (404) and throws in messages.js (500).
OwnershipCheck(r, dbOk) ==
  /\ mreq[r].pc = "check"
  /\ LET q == mreq[r]
         found == IF q.op \in {"get", "post"}
                  THEN OwnsConversation(q.user, q.conversationId)
                  ELSE OwnsMessage(q.user, q.messageId)
     IN mreq' = [mreq EXCEPT ![r] =
                   IF ~dbOk
                   THEN MsgRespond(q, IF impl = "ts" THEN 404 ELSE 500)
                   ELSE IF ~found THEN MsgRespond(q, 404)
                   ELSE Issue(q, "act")]
  /\ UNCHANGED <<convs, messages, nextId, impl, nextConvId, posted, touched>>

\* the list query of GET /conversation/:conversationId is answered
GetAct(r, dbOk) ==
  /\ mreq[r].pc = "act" /\ mreq[r].op = "get"
  /\ LET q == mreq[r]
     IN mreq' = [mreq EXCEPT ![r] =
                   IF dbOk
                   THEN [MsgRespond(q, 200)
                           EXCEPT !.list = MessagesOf(q.conversationId.str)]
                   ELSE MsgRespond(q, 500)]
  /\ UNCHANGED <<convs, messages, nextId, impl, nextConvId, posted, touched>>

\* the insert of POST / is answered; 201 carries the stored row
PostAct(r, dbOk) ==
  /\ mreq[r].pc = "act" /\ mreq[r].op = "post"
  /\ LET q == mreq[r]
         row == InsertedRow(nextId, q.conversationId, q.role, q.content)
     IN IF dbOk
        THEN /\ messages' = messages \cup {row}
             /\ nextId' = nextId + 1
             /\ posted' = posted \cup {[id |-> row.id,
                                        conversation_id |-> row.conversation_id,
                                        role |-> q.role.str,
                                        content |-> q.content.str,
                                        user |-> q.user.str]}
             /\ mreq' = [mreq EXCEPT ![r] =
                           [MsgRespond(q, 201)
                              EXCEPT !.nWrites = @ + 1,
                                     !.data = <<[id |-> row.id,
                                                 role |-> row.role,
                                                 content |-> row.content]>>]]
        ELSE /\ mreq' = [mreq EXCEPT ![r] =
                           [MsgRespond(q, 500) EXCEPT !.nWrites = @ + 1]]
             /\ UNCHANGED <<messages, nextId, posted>>
  /\ UNCHANGED <<convs, impl, nextConvId, touched>>

\* the update of PUT /:id is answered; no row back is a 500
PutAct(r, dbOk) ==
  /\ mreq[r].pc = "act" /\ mreq[r].op = "put"
  /\ LET q == mreq[r]
         hit == {m \in messages : m.id = q.messageId}
     IN IF dbOk /\ hit # {}
        THEN /\ messages' = (messages \ hit) \cup
                            {[m EXCEPT !.content = q.content.str] : m \in hit}
             /\ touched' = touched \cup {q.messageId}
             /\ mreq' = [mreq EXCEPT ![r] =
                           [MsgRespond(q, 200) EXCEPT !.nWrites = @ + 1]]
        ELSE /\ mreq' = [mreq EXCEPT ![r] =
                           [MsgRespond(q, 500) EXCEPT !.nWrites = @ + 1]]
             /\ UNCHANGED <<messages, touched>>
  /\ UNCHANGED <<convs, nextId, impl, nextConvId, posted>>

\* the delete of DELETE /:id (messages) is answered
DeleteAct(r, dbOk) ==
  /\ mreq[r].pc = "act" /\ mreq[r].op = "delete"
  /\ LET q == mreq[r]
     IN IF dbOk
        THEN /\ messages' = {m \in messages : m.id # q.messageId}
             /\ touched' = touched \cup {q.messageId}
             /\ mreq' = [mreq EXCEPT ![r] =
                           [MsgRespond(q, 200) EXCEPT !.nWrites = @ + 1]]
        ELSE /\ mreq' = [mreq EXCEPT ![r] =
                           [MsgRespond(q, 500) EXCEPT !.nWrites = @ + 1]]
             /\ UNCHANGED <<messages, touched>>
  /\ UNCHANGED <<convs, nextId, impl, nextConvId, posted>>

\* DELETE /:id of the conversations router arrives
DeleteConversationStart(r, user, conversationId) ==
  /\ mreq[r].pc \in {"idle", "done"}
  /\ Truthy(conversationId)
  /\ LET q == [IdleMsg EXCEPT !.op = "delconv", !.user = user,
                              !.conversationId = conversationId]
     IN mreq' = [mreq EXCEPT ![r] = IF ~Truthy(user) THEN MsgRespond(q, 401)
                                    ELSE Issue(q, "act")]
  /\ UNCHANGED <<convs, messages, nextId, impl, nextConvId, posted, touched>>

\* The delete of the conversation is answered.  conversations.ts answers 404
\* only on a database error; conversations.js answers 404 when no row was
\* deleted.  Whether the messages of a deleted conversation go with it is up
\* to the schema.  removed is the number of rows the statement deleted
\* (result.rows.length in conversations.js).
DeleteConversationAct(r, dbOk, cascade) ==
  /\ mreq[r].pc = "act" /\ mreq[r].op = "delconv"
  /\ LET q == mreq[r]
         hit == {c \in convs : c.id = q.conversationId.str
                               /\ c.user_id = q.user.str}
     IN IF dbOk
        THEN /\ convs' = convs \ hit
             /\ messages' = IF cascade
                            THEN {m \in messages :
                                    \A c \in hit : m.conversation_id # c.id}
                            ELSE messages
             /\ mreq' = [mreq EXCEPT ![r] =
                           [MsgRespond(q, IF impl = "js" /\ hit = {}
                                          THEN 404 ELSE 200)
                              EXCEPT !.nWrites = @ + 1,
                                     !.removed = Cardinality(hit)]]
        ELSE /\ mreq' = [mreq EXCEPT ![r] =
                           [MsgRespond(q, IF impl = "ts" THEN 404 ELSE 500)
                              EXCEPT !.nWrites = @ + 1]]
             /\ UNCHANGED <<convs, messages>>
  /\ UNCHANGED <<nextId, impl, nextConvId, posted, touched>>

\* ------------------------------------------------------------------------
\* The other endpoints of the conversations router (routes/conversations.ts
\* over Supabase, routes/conversations.js over pg)
\* ------------------------------------------------------------------------
\* conversations c1 and c2 exist at the start; created ones are c3, c4, ...
FirstNewConv == 3

\* most conversations POST / creates in the model
MaxCreated == 1

TitleInputs == {Undefined, Str("t")}

\* title || 'New Conversation'
TitleOrDefault(title) == IF Truthy(title) THEN title.str ELSE "New Conversation"

\* the columns the handlers send back
ConvView(c) == [id |-> c.id, title |-> c.title]

\* select ... where user_id = $1, the latest created first (updated_at is
\* not kept in the model)
RECURSIVE ConvRowsFrom(_, _)
ConvRowsFrom(n, user) ==
  IF n = 0 THEN <<>>
  ELSE (IF \E c \in convs : c.id = "c" \o ToString(n) /\ c.user_id = user
        THEN <<ConvView(CHOOSE c \in convs : c.id = "c" \o ToString(n))>>
        ELSE <<>>)
       \o ConvRowsFrom(n - 1, user)

\* GET / arrives
ConvListStart(r, user) ==
  /\ mreq[r].pc \in {"idle", "done"}
  /\ LET q == [IdleMsg EXCEPT !.op = "convlist", !.user = user]
     IN mreq' = [mreq EXCEPT ![r] = IF ~Truthy(user) THEN MsgRespond(q, 401)
                                    ELSE Issue(q, "act")]
  /\ UNCHANGED <<convs, messages, nextId, nextConvId, impl, posted, touched>>

\* the select of GET / is answered
ConvListAct(r, dbOk) ==
  /\ mreq[r].pc = "act" /\ mreq[r].op = "convlist"
  /\ LET q == mreq[r]
     IN mreq' = [mreq EXCEPT ![r] =
                   IF dbOk
                   THEN [MsgRespond(q, 200)
                           EXCEPT !.list = ConvRowsFrom(nextConvId - 1,
                                                        q.user.str)]
                   ELSE MsgRespond(q, 500)]
  /\ UNCHANGED <<convs, messages, nextId, nextConvId, impl, posted, touched>>

\* POST / arrives
ConvCreateStart(r, user, title) ==
  /\ mreq[r].pc \in {"idle", "done"}
  /\ nextConvId < FirstNewConv + MaxCreated
  /\ LET q == [IdleMsg EXCEPT !.op = "convcreate", !.user = user,
                              !.title = title]
     IN mreq' = [mreq EXCEPT ![r] = IF ~Truthy(user) THEN MsgRespond(q, 401)
                                    ELSE Issue(q, "act")]
  /\ UNCHANGED <<convs, messages, nextId, nextConvId, impl, posted, touched>>

\* the insert of POST / is answered; 201 carries the new row
ConvCreateAct(r, dbOk) ==
  /\ mreq[r].pc = "act" /\ mreq[r].op = "convcreate"
  /\ LET q == mreq[r]
         row == [id |-> "c" \o ToString(nextConvId), user_id |-> q.user.str,
                 title |-> TitleOrDefault(q.title)]
     IN IF dbOk
        THEN /\ convs' = convs \cup {row}
             /\ nextConvId' = nextConvId + 1
             /\ mreq' = [mreq EXCEPT ![r] =
                           [MsgRespond(q, 201)
                              EXCEPT !.nWrites = @ + 1,
                                     !.data = <<ConvView(row)>>]]
        ELSE /\ mreq' = [mreq EXCEPT ![r] =
                           [MsgRespond(q, 500) EXCEPT !.nWrites = @ + 1]]
             /\ UNCHANGED <<convs, nextConvId>>
  /\ UNCHANGED <<messages, nextId, impl, posted, touched>>

\* GET /:id arrives
ConvGetStart(r, user, conversationId) ==
  /\ mreq[r].pc \in {"idle", "done"}
  /\ Truthy(conversationId)
  /\ LET q == [IdleMsg EXCEPT !.op = "convget", !.user = user,
                              !.conversationId = conversationId]
     IN mreq' = [mreq EXCEPT ![r] = IF ~Truthy(user) THEN MsgRespond(q, 401)
                                    ELSE Issue(q, "act")]
  /\ UNCHANGED <<convs, messages, nextId, nextConvId, impl, posted, touched>>

\* the select of GET /:id is answered: no row is a 404; a failed statement
\* is a 404 in conversations.ts and a 500 in conversations.js
ConvGetAct(r, dbOk) ==
  /\ mreq[r].pc = "act" /\ mreq[r].op = "convget"
  /\ LET q == mreq[r]
         hit == {c \in convs : c.id = q.conversationId.str
                               /\ c.user_id = q.user.str}
     IN mreq' = [mreq EXCEPT ![r] =
                   IF ~dbOk
                   THEN MsgRespond(q, IF impl = "ts" THEN 404 ELSE 500)
                   ELSE IF hit = {} THEN MsgRespond(q, 404)
                   ELSE [MsgRespond(q, 200)
                           EXCEPT !.data = <<ConvView(CHOOSE c \in hit : TRUE)>>]]
  /\ UNCHANGED <<convs, messages, nextId, nextConvId, impl, posted, touched>>

\* PUT /:id arrives
ConvPutStart(r, user, conversationId, title) ==
  /\ mreq[r].pc \in {"idle", "done"}
  /\ Truthy(conversationId)
  /\ LET q == [IdleMsg EXCEPT !.op = "convput", !.user = user,
                              !.conversationId = conversationId,
                              !.title = title]
     IN mreq' = [mreq EXCEPT ![r] =
                   IF ~Truthy(user) THEN MsgRespond(q, 401)
                   ELSE IF ~Truthy(title) THEN MsgRespond(q, 400)
                   ELSE Issue(q, "act")]
  /\ UNCHANGED <<convs, messages, nextId, nextConvId, impl, posted, touched>>

\* the update of PUT /:id is answered
ConvPutAct(r, dbOk) ==
  /\ mreq[r].pc = "act" /\ mreq[r].op = "convput"
  /\ LET q == mreq[r]
         hit == {c \in convs : c.id = q.conversationId.str
                               /\ c.user_id = q.user.str}
         new == {[c EXCEPT !.title = q.title.str] : c \in hit}
     IN IF dbOk /\ hit # {}
        THEN /\ convs' = (convs \ hit) \cup new
             /\ mreq' = [mreq EXCEPT ![r] =
                           [MsgRespond(q, 200)
                              EXCEPT !.nWrites = @ + 1,
                                     !.data = <<ConvView(CHOOSE c \in new : TRUE)>>]]
        ELSE /\ mreq' = [mreq EXCEPT ![r] =
                           [MsgRespond(q, IF dbOk \/ impl = "ts"
                                          THEN 404 ELSE 500)
                              EXCEPT !.nWrites = @ + 1]]
             /\ UNCHANGED convs
  /\ UNCHANGED <<messages, nextId, nextConvId, impl, posted, touched>>

\* ------------------------------------------------------------------------
\* Specifications
\* ------------------------------------------------------------------------
MsgSlots == {1}

InitChatVars ==
  /\ req = [r \in Slots |-> IdleReq]
  /\ conversations = <<>>
  /\ products = <<>>
  /\ embeddings = <<>>
  /\ envConfigured \in BOOLEAN

\* no completion stream is being read
InitSseIdle ==
  /\ sseBody = <<>>
  /\ sseReads = <<>>
  /\ buffer = <<>>
  /\ onChunkCalls = <<>>
  /\ ssePc = "idle"

InitMsgVars ==
  /\ convs = {[id |-> "c1", user_id |-> "u1", title |-> "t1"],
              [id |-> "c2", user_id |-> "u2", title |-> "t2"]}
  /\ messages = {}
  /\ nextId = 1
  /\ nextConvId = FirstNewConv
  /\ impl \in {"ts", "js"}
  /\ mreq = [r \in MsgSlots |-> IdleMsg]
  /\ posted = {}
  /\ touched = {}

Init ==
  InitChatVars /\ InitMsgVars /\ impl = "ts" /\ InitSseIdle /\ InitImgIdle
  /\ InitRestIdle

\* one request, of any handler, with any body
ChatRequest(r) ==
  \/ \E h \in ChatHandlers \cup {"stream"}, m \in MessageInputs,
        s \in SessionInputs : ChatStart(r, h, m, s)
  \/ \E ok \in BOOLEAN : EmbedReturn(r, ok)
  \/ \E ok \in BOOLEAN, docs \in DocLists : SearchReturn(r, ok, docs)
  \/ \E ok \in BOOLEAN, a \in Answers : GenReturn(r, ok, a)
  \/ \E ok \in BOOLEAN : SaveReturn(r, ok)
  \/ \E ok \in BOOLEAN : StreamOpen(r, ok)
  \/ \E c \in ChunkPool : StreamChunk(r, c)
  \/ StreamError(r)
  \/ StreamEnd(r)
  \/ \E ok \in BOOLEAN : StreamSaveReturn(r, ok)

UploadRequest(r) ==
  \/ \E b \in UploadBodies : UploadStart(r, b)
  \/ \E c, e, i \in BOOLEAN : UploadProduct(r, c, e, i)

\* the server handles one request, start to end
Next ==
  /\ ChatRequest(1) \/ UploadRequest(1)
  /\ UNCHANGED msgVars
  /\ UNCHANGED sseVars
  /\ UNCHANGED imgVars
  /\ UNCHANGED restVars

Spec == Init /\ [][Next]_vars

\* Several chat requests in flight, their steps interleaved.  Slot r sends
\* its own message and sessionId; the search returns at most one row and the
\* completion of slot r streams the chunk of that slot.
ConcMessage(r) == Str("m" \o ToString(r))
ConcSession(r) == Str("s" \o ToString(r))
ConcDocLists == { d \in DocLists : Len(d) <= 1 /\ \A i \in DOMAIN d :
                                     d[i].product_id \in {"p1", "p2"} }
ConcAnswers == { <<"a" \o ToString(r)>> : r \in Slots }
ConcChunk(r) == IF r = 1 THEN "x" ELSE "y"

ConcRequest(r) ==
  \/ \E h \in {"chatjs", "stream"} :
        ChatStart(r, h, ConcMessage(r), ConcSession(r))
  \/ \E ok \in BOOLEAN : EmbedReturn(r, ok)
  \/ \E ok \in BOOLEAN, docs \in ConcDocLists : SearchReturn(r, ok, docs)
  \/ \E ok \in BOOLEAN, a \in ConcAnswers : GenReturn(r, ok, a)
  \/ \E ok \in BOOLEAN : SaveReturn(r, ok)
  \/ \E ok \in BOOLEAN : StreamOpen(r, ok)
  \/ StreamChunk(r, ConcChunk(r))
  \/ StreamError(r)
  \/ StreamEnd(r)
  \/ \E ok \in BOOLEAN : StreamSaveReturn(r, ok)

InitConc ==
  /\ InitChatVars
  /\ envConfigured
  /\ InitMsgVars
  /\ impl = "ts"
  /\ InitSseIdle
  /\ InitImgIdle
  /\ InitRestIdle

NextConc ==
  /\ \E r \in Slots : ConcRequest(r)
  /\ UNCHANGED msgVars
  /\ UNCHANGED sseVars
  /\ UNCHANGED imgVars
  /\ UNCHANGED restVars

SpecConc == InitConc /\ [][NextConc]_vars

\* The messages router serving one request after another
MsgRequest(r) ==
  \/ \E u \in Users, c \in ConvInputs :
        GetStart(r, u, c)
  \/ \E u \in Users, c \in ConvInputs,
        role \in RoleInputs, content \in ContentInputs :
        PostStart(r, u, c, role, content)
  \/ \E u \in Users, id \in MsgIdInputs,
        content \in {Undefined, Str("edited")} :
        PutStart(r, u, id, content)
  \/ \E u \in Users, id \in MsgIdInputs :
        DeleteStart(r, u, id)
  \/ \E u \in Users, c \in ConvInputs :
        DeleteConversationStart(r, u, c)
  \/ \E dbOk \in BOOLEAN : OwnershipCheck(r, dbOk)
  \/ \E dbOk \in BOOLEAN : GetAct(r, dbOk)
  \/ \E dbOk \in BOOLEAN : PostAct(r, dbOk)
  \/ \E dbOk \in BOOLEAN : PutAct(r, dbOk)
  \/ \E dbOk \in BOOLEAN : DeleteAct(r, dbOk)
  \/ \E dbOk, cascade \in BOOLEAN : DeleteConversationAct(r, dbOk, cascade)

InitMsg ==
  /\ InitChatVars
  /\ envConfigured
  /\ InitMsgVars
  /\ InitSseIdle
  /\ InitImgIdle
  /\ InitRestIdle

NextMsg ==
  /\ \E r \in MsgSlots : MsgRequest(r)
  /\ UNCHANGED chatVars
  /\ UNCHANGED sseVars
  /\ UNCHANGED imgVars
  /\ UNCHANGED restVars

SpecMsg == InitMsg /\ [][NextMsg]_vars

\* POST /api/chat exchanges, one after another, and GET /api/chat/history
\* requests after them.  Slot 1 holds the POST being handled, slot 2 the GET
\* that follows it; exchange k sends message "m<k>" and is answered "a<k>".
MaxExchanges == 2

PostSlot == 1
GetSlot == 2

HistSessions == {Str("s1"), Str("s2")}
HistDocLists == { d \in DocLists : Len(d) <= 1 /\ \A i \in DOMAIN d :
                                     d[i].product_id = "p1" }
ExchangeNo == Len(conversations) + 1

HistChatRequest(r) ==
  \/ /\ Len(conversations) < MaxExchanges
     /\ req[GetSlot].pc = "idle"
     /\ \E h \in ChatHandlers, s \in HistSessions :
          ChatStart(r, h, ConcMessage(ExchangeNo), s)
  \/ EmbedReturn(r, TRUE)
  \/ \E docs \in HistDocLists : SearchReturn(r, TRUE, docs)
  \/ GenReturn(r, TRUE, <<"a" \o ToString(ExchangeNo)>>)
  \/ \E ok \in BOOLEAN : SaveReturn(r, ok)

HistoryRequest(r) ==
  \/ /\ req[PostSlot].pc \in {"idle", "done"}
     /\ \E s \in HistSessions, limit \in LimitInputs :
          HistoryStart(r, s, limit)
  \/ \E ok \in BOOLEAN : HistoryReturn(r, ok)

\* both responses have gone out; the next requests arrive
NextExchange ==
  /\ req[PostSlot].pc = "done"
  /\ req[GetSlot].pc \in {"idle", "done"}
  /\ req' = [r \in Slots |-> IdleReq]
  /\ UNCHANGED <<conversations, products, embeddings, envConfigured>>

InitHist ==
  /\ InitChatVars
  /\ envConfigured
  /\ InitMsgVars
  /\ impl = "ts"
  /\ InitSseIdle
  /\ InitImgIdle
  /\ InitRestIdle

NextHist ==
  /\ HistChatRequest(PostSlot) \/ HistoryRequest(GetSlot) \/ NextExchange
  /\ UNCHANGED msgVars
  /\ UNCHANGED sseVars
  /\ UNCHANGED imgVars
  /\ UNCHANGED restVars

SpecHist == InitHist /\ [][NextHist]_vars

\* The conversations router and the messages router serving one request
\* after another, from a caller that is user u1 or is not authenticated
RouterUsers == {Undefined, Str("u1")}
RouterConvInputs == {Str("c1"), Str("c2")}

RoutersRequest(r) ==
  \/ \E u \in RouterUsers, c \in RouterConvInputs : GetStart(r, u, c)
  \/ \E u \in RouterUsers, c \in {Undefined, Str("c1")},
        role \in {Undefined, Str("user")}, content \in {Undefined, Str("hi")} :
        PostStart(r, u, c, role, content)
  \/ \E u \in RouterUsers, id \in MsgIdInputs,
        content \in {Undefined, Str("edited")} :
        PutStart(r, u, id, content)
  \/ \E u \in RouterUsers, id \in MsgIdInputs : DeleteStart(r, u, id)
  \/ \E u \in RouterUsers : ConvListStart(r, u)
  \/ \E u \in RouterUsers, title \in TitleInputs :
        ConvCreateStart(r, u, title)
  \/ \E u \in RouterUsers, c \in RouterConvInputs : ConvGetStart(r, u, c)
  \/ \E u \in RouterUsers, c \in RouterConvInputs, title \in TitleInputs :
        ConvPutStart(r, u, c, title)
  \/ \E u \in RouterUsers, c \in RouterConvInputs :
        DeleteConversationStart(r, u, c)
  \/ \E dbOk \in BOOLEAN : OwnershipCheck(r, dbOk)
  \/ \E dbOk \in BOOLEAN : GetAct(r, dbOk)
  \/ \E dbOk \in BOOLEAN : PostAct(r, dbOk)
  \/ \E dbOk \in BOOLEAN : PutAct(r, dbOk)
  \/ \E dbOk \in BOOLEAN : DeleteAct(r, dbOk)
  \/ \E dbOk \in BOOLEAN : ConvListAct(r, dbOk)
  \/ \E dbOk \in BOOLEAN : ConvCreateAct(r, dbOk)
  \/ \E dbOk \in BOOLEAN : ConvGetAct(r, dbOk)
  \/ \E dbOk \in BOOLEAN : ConvPutAct(r, dbOk)
  \/ \E dbOk, cascade \in BOOLEAN : DeleteConversationAct(r, dbOk, cascade)

NextRouters ==
  /\ \E r \in MsgSlots : RoutersRequest(r)
  /\ UNCHANGED chatVars
  /\ UNCHANGED sseVars
  /\ UNCHANGED imgVars
  /\ UNCHANGED restVars

SpecRouters == InitMsg /\ [][NextRouters]_vars

\* chatCompletionStream reading one body, cut into at most MaxReads reads at
\* any places
SseBodies ==
  { DataPrefix \o DeltaJson("x") \o Newline \o Newline
      \o DataPrefix \o DeltaJson("y") \o Newline \o Newline
      \o DataPrefix \o DoneText \o Newline \o Newline,
    DataPrefix \o DeltaJson("x") \o Newline
      \o DataPrefix \o DoneText \o Newline
      \o DataPrefix \o DeltaJson("y") \o Newline,
    DataPrefix \o <<"{", "x">> \o Newline
      \o DataPrefix \o DeltaJson("y") \o Newline,
    <<"event:", " ", "e">> \o Newline
      \o DataPrefix \o <<"{", "}">> \o Newline
      \o DataPrefix \o DeltaJson("y") \o Newline
      \o DataPrefix \o DeltaJson("x"),
    DataPrefix \o DeltaJson("x") \o Newline
      \o <<"data:">> \o DeltaJson("y") \o Newline
      \o DataPrefix \o DeltaJson("x") \o Newline
      \o DataPrefix \o DoneText }

\* the reads that cut body after the tokens numbered cuts[1] <= cuts[2] ...
ReadsOf(body, cuts) ==
  [i \in 1..MaxReads |->
     SubSeq(body,
            (IF i = 1 THEN 0 ELSE cuts[i - 1]) + 1,
            IF i = MaxReads THEN Len(body) ELSE cuts[i])]

InitSse ==
  /\ InitChatVars
  /\ envConfigured
  /\ InitMsgVars
  /\ impl = "ts"
  /\ \E body \in SseBodies :
       \E cuts \in [1..(MaxReads - 1) -> 0..Len(body)] :
         /\ \A i \in 1..(MaxReads - 2) : cuts[i] <= cuts[i + 1]
         /\ sseBody = body
         /\ sseReads = ReadsOf(body, cuts)
  /\ buffer = <<>>
  /\ onChunkCalls = <<>>
  /\ ssePc = "reading"
  /\ InitImgIdle
  /\ InitRestIdle

NextSse ==
  /\ SseRead \/ SseDone
  /\ UNCHANGED chatVars
  /\ UNCHANGED msgVars
  /\ UNCHANGED imgVars
  /\ UNCHANGED restVars

SpecSse == InitSse /\ [][NextSse]_vars

\* POST /api/upload/images requests, one after another
InitImg ==
  /\ InitChatVars
  /\ envConfigured
  /\ InitMsgVars
  /\ impl = "ts"
  /\ InitSseIdle
  /\ InitImgIdle
  /\ InitRestIdle

NextImg ==
  /\ \/ \E body \in ImageBodies : ImageStart(body)
     \/ \E uploadOk, insertOk, unlinkOk \in BOOLEAN :
          ImageFile(uploadOk, insertOk, unlinkOk)
  /\ UNCHANGED chatVars
  /\ UNCHANGED msgVars
  /\ UNCHANGED sseVars
  /\ UNCHANGED restVars

SpecImg == InitImg /\ [][NextImg]_vars

\* ---- the auth router under concurrent requests ----

InitAuth ==
  /\ InitChatVars
  /\ envConfigured
  /\ InitMsgVars
  /\ impl = "ts"
  /\ InitSseIdle
  /\ InitImgIdle
  /\ users = InitialUsers
  /\ areq = [s \in AuthSlots |-> IdleAuth]
  /\ emailUnique \in BOOLEAN
  /\ InitChunkIdle
  /\ InitScriptDbIdle /\ InitIngestIdle /\ InitGenIdle /\ InitWidgetIdle

NextAuth ==
  /\ \/ \E s \in AuthSlots, body \in AuthBodies : RegisterStart(s, body)
     \/ \E s \in AuthSlots, queryOk \in BOOLEAN : RegisterSelect(s, queryOk)
     \/ \E s \in AuthSlots : RegisterHash(s)
     \/ \E s \in AuthSlots, queryOk \in BOOLEAN : RegisterInsert(s, queryOk)
     \/ \E s \in AuthSlots, body \in AuthBodies : LoginStart(s, body)
     \/ \E s \in AuthSlots, queryOk \in BOOLEAN : LoginFind(s, queryOk)
     \/ \E s \in AuthSlots : LoginCompare(s)
  /\ UNCHANGED chatVars
  /\ UNCHANGED msgVars
  /\ UNCHANGED sseVars
  /\ UNCHANGED imgVars
  /\ UNCHANGED chunkVars
  /\ UNCHANGED <<scriptDb, ingVars, genVars, widgetVars>>

SpecAuth == InitAuth /\ [][NextAuth]_vars

\* ---- chunkText on every text and every pair of parameters ----

InitChunk ==
  /\ InitChatVars
  /\ envConfigured
  /\ InitMsgVars
  /\ impl = "ts"
  /\ InitSseIdle
  /\ InitImgIdle
  /\ InitAuthIdle
  /\ words \in Texts
  /\ chunkSize \in 1..MaxChunkSize
  /\ overlap \in 0..(chunkSize - 1)
  /\ chunkI = 0
  /\ chunks = <<>>
  /\ chunkStarts = <<>>
  /\ chunkPc = "loop"
  /\ InitScriptDbIdle /\ InitIngestIdle /\ InitGenIdle /\ InitWidgetIdle

NextChunk ==
  /\ \/ ChunkIteration
     \/ ChunkReturn
  /\ UNCHANGED chatVars
  /\ UNCHANGED msgVars
  /\ UNCHANGED sseVars
  /\ UNCHANGED imgVars
  /\ UNCHANGED authVars
  /\ UNCHANGED <<scriptDb, ingVars, genVars, widgetVars>>

\* the loop runs on as long as it can
SpecChunk == InitChunk /\ [][NextChunk]_vars /\ WF_vars(NextChunk)

\* ---- the ingestion script on every input file ----

InitIngest ==
  /\ InitChatVars
  /\ envConfigured
  /\ InitMsgVars
  /\ impl = "ts"
  /\ InitSseIdle
  /\ InitImgIdle
  /\ InitAuthIdle
  /\ InitChunkIdle
  /\ InitScriptDbIdle
  /\ ingFile \in ProductFiles
  /\ ingI = 0
  /\ ingPc = "product"
  /\ ingChunks = <<>>
  /\ ingBatchI = 0
  /\ attempts = <<>>
  /\ outcomes = <<>>
  /\ InitGenIdle
  /\ InitWidgetIdle

NextIngest ==
  /\ \/ \E insertOk \in BOOLEAN : IngestProduct(insertOk)
     \/ \E embedOk, insertOk \in BOOLEAN : IngestBatch(embedOk, insertOk)
     \/ IngestComplete
  /\ UNCHANGED chatVars
  /\ UNCHANGED msgVars
  /\ UNCHANGED sseVars
  /\ UNCHANGED imgVars
  /\ UNCHANGED authVars
  /\ UNCHANGED chunkVars
  /\ UNCHANGED genVars
  /\ UNCHANGED widgetVars

\* the script runs on as long as it can
SpecIngest == InitIngest /\ [][NextIngest]_vars /\ WF_vars(NextIngest)

\* ---- runs of the embedding generation script, one after the other ----

\* the embeddings table before the first run: empty, or holding a
\* description embedding of the first product
InitialEmbeddings ==
  {<<>>,
   <<[product_id |-> 1, source_type |-> "description",
      text_snippet |-> <<"description">>, run |-> 0]>>}

InitGen ==
  /\ InitChatVars
  /\ envConfigured
  /\ InitMsgVars
  /\ impl = "ts"
  /\ InitSseIdle
  /\ InitImgIdle
  /\ InitAuthIdle
  /\ InitChunkIdle
  /\ InitIngestIdle
  /\ dbProducts = ScriptProducts
  /\ dbEmbeddings \in InitialEmbeddings
  /\ InitGenIdle
  /\ InitWidgetIdle

NextGen ==
  /\ \/ \E fetchOk \in BOOLEAN : GenStart(fetchOk)
     \/ \E checkOk \in BOOLEAN : GenCheck(checkOk)
     \/ \E t \in DOMAIN SourceTypes, embedOk, insertOk \in BOOLEAN :
          GenEmbedAndInsert(t, embedOk, insertOk)
  /\ UNCHANGED chatVars
  /\ UNCHANGED msgVars
  /\ UNCHANGED sseVars
  /\ UNCHANGED imgVars
  /\ UNCHANGED authVars
  /\ UNCHANGED chunkVars
  /\ UNCHANGED ingVars
  /\ UNCHANGED widgetVars

SpecGen == InitGen /\ [][NextGen]_vars

\* ---- one mounted widget, on the demo page or with its default call ----

InitWidget ==
  /\ InitChatVars
  /\ envConfigured
  /\ InitMsgVars
  /\ impl = "ts"
  /\ InitSseIdle
  /\ InitImgIdle
  /\ InitAuthIdle
  /\ InitChunkIdle
  /\ InitScriptDbIdle
  /\ InitIngestIdle
  /\ InitGenIdle
  /\ inputValue = <<>>
  /\ widgetMessages = <<>>
  /\ isLoading = FALSE
  /\ now = 0
  /\ widgetSessionId = NewSessionId(0)
  /\ onSendMessage \in BOOLEAN
  /\ inFlight = <<>>
  /\ sentRequests = <<>>
  /\ widgetEvent = "mount"

NextWidget ==
  /\ \/ \E v \in InputValues : Change(v)
     \/ SubmitForm
     \/ \E enter, shiftKey \in BOOLEAN : KeyPress(enter, shiftKey)
     \/ \E ok \in BOOLEAN : RequestSettles(ok)
     \/ Tick
  /\ UNCHANGED chatVars
  /\ UNCHANGED msgVars
  /\ UNCHANGED sseVars
  /\ UNCHANGED imgVars
  /\ UNCHANGED authVars
  /\ UNCHANGED chunkVars
  /\ UNCHANGED <<scriptDb, ingVars, genVars>>

SpecWidget == InitWidget /\ [][NextWidget]_vars

\* ------------------------------------------------------------------------
\* Properties
\* ------------------------------------------------------------------------
\* the request in slot r has been answered by a POST /api/chat handler
AnsweredChat(r) == req[r].pc = "done" /\ req[r].handler \in ChatHandlers

\* C1: in every POST /api/chat handler, a 200 response to a request whose
\* retrieval returned zero documents carries the escalation sentence and an
\* empty provenance list.
C1_NoDocsEscalates ==
  \A r \in Slots :
    (AnsweredChat(r) /\ req[r].retrieved /\ Len(req[r].docs) = 0
       /\ req[r].status = 200)
    => /\ req[r].body.answer = EscalationText
       /\ req[r].body.provenance = <<>>

\* C2: when retrieval returned documents and every one of them is below the
\* relevance threshold, no generation call is made for the request and its
\* 200 response carries the escalation sentence.
C2_BelowThresholdEscalates ==
  \A r \in Slots :
    (req[r].handler \in ChatHandlers /\ req[r].retrieved
       /\ Len(req[r].docs) >= 1
       /\ FilterSimilar(req[r].docs, MinSimilarityTenths) = <<>>)
    => /\ req[r].nGen = 0
       /\ (req[r].pc = "done" /\ req[r].status = 200
             => req[r].body.answer = EscalationText)

\* texts that may stand in the ID part of a provenance tag
IdTexts == {d.source_id : d \in DocPool} \cup {"null", ""}

\* the block of a snippet under the full tag, with idText in the ID part
TaggedBlock(doc, idText) ==
  <<"[Product: ", doc.product_id, ", Source: ", doc.source_type,
    ", ID: ", idText, "]", "\n", doc.text_snippet>>

\* C3: the context of every generation call is the retrieved snippets in
\* retrieval order, one blank line apart, each right after a tag
\* [Product: <product_id>, Source: <source_type>, ID: <source_id>].
C3_ContextFullyTagged ==
  \A r \in Slots :
    (req[r].handler \in ChatHandlers \cup {"stream"} /\ req[r].nGen >= 1)
    => \E ids \in [DOMAIN req[r].docs -> IdTexts] :
         req[r].contextText =
           JoinText([i \in DOMAIN req[r].docs |->
                       TaggedBlock(req[r].docs[i], ids[i])], <<"\n\n">>)

\* C4: a 200 response to a request whose retrieval returned n >= 1 documents
\* and whose generation succeeded has n provenance entries, entry i with the
\* product_id and source_type of document i, and retrieved_docs = n.
C4_ProvenanceMatchesDocs ==
  \A r \in Slots :
    (AnsweredChat(r) /\ req[r].status = 200 /\ req[r].retrieved
       /\ Len(req[r].docs) >= 1 /\ req[r].generated)
    => /\ Len(req[r].body.provenance) = Len(req[r].docs)
       /\ \A i \in DOMAIN req[r].docs :
            /\ req[r].body.provenance[i].product_id = req[r].docs[i].product_id
            /\ req[r].body.provenance[i].source_type = req[r].docs[i].source_type
       /\ req[r].body.retrieved_docs = Count(Len(req[r].docs))

\* a 200 answer over two documents, the first a description of product p1,
\* which the response cites first
C4_Witness ==
  \E r \in Slots :
    /\ AnsweredChat(r) /\ req[r].status = 200 /\ req[r].generated
    /\ Len(req[r].docs) = 2
    /\ req[r].docs[1].source_type = "description"
    /\ req[r].body.provenance[1].product_id = "p1"
    /\ req[r].body.answer \in Answers

\* C7: in every POST /api/chat handler a request whose generation succeeded
\* and whose conversation write failed is answered 200 with the answer and
\* provenance it would have had.
C7_SaveFailureInvisible ==
  \A r \in Slots :
    (AnsweredChat(r) /\ req[r].generated /\ req[r].saveOutcome = "failed")
    => /\ req[r].status = 200
       /\ req[r].body = AnswerBody(req[r].answer,
                                   ProvenanceOf(req[r].handler, req[r].docs),
                                   Count(Len(req[r].docs)))

\* C8: a chat or streaming chat request in which the embedding, the search
\* or the generation call failed is answered 500.
C8_FailureGives500 ==
  \A r \in Slots :
    (req[r].pc = "done" /\ req[r].handler \in ChatHandlers \cup {"stream"}
       /\ req[r].failedCall \in {"embedding", "search", "generation"})
    => req[r].status = 500

\* C9 as stated: every request, upload included, issues at most one embedding
\* call, one search, one generation call and one persistence write.
C9_AtMostOneCallEach ==
  \A r \in Slots :
    /\ req[r].nEmbed <= 1 /\ req[r].nSearch <= 1
    /\ req[r].nGen <= 1 /\ req[r].nSave <= 1

\* C9 amended: a chat or streaming chat request issues at most one call of
\* each kind; a product upload issues no search and no generation call, at
\* most one embedding call and at most two writes per product of its body.
C9_ChatAtMostOneCallEach ==
  \A r \in Slots :
    /\ req[r].handler # "upload"
         => /\ req[r].nEmbed <= 1 /\ req[r].nSearch <= 1
            /\ req[r].nGen <= 1 /\ req[r].nSave <= 1
    /\ req[r].handler = "upload"
         => /\ req[r].nSearch = 0 /\ req[r].nGen = 0
            /\ req[r].nEmbed <= Len(req[r].items)
            /\ req[r].nSave <= 2 * Len(req[r].items)

\* a chat request answered 200 after one call of each kind
C9_Witness ==
  \E r \in Slots :
    /\ AnsweredChat(r) /\ req[r].status = 200
    /\ req[r].nEmbed = 1 /\ req[r].nSearch = 1
    /\ req[r].nGen = 1 /\ req[r].nSave = 1

\* the conversation row a request of routes/chat.js is expected to leave:
\* its own sessionId and message, the text the generation API handed to it,
\* and its own documents
OwnRow(r) ==
  [columns |-> {"session_id", "user_message", "assistant_response",
                "retrieved_docs"},
   session_id |-> ConcSession(r), user_message |-> ConcMessage(r),
   answer |-> req[r].delivered, docs |-> ProvenanceListJs(req[r].docs)]

SavedSlots == { r \in Slots : req[r].saveOutcome = "ok" }

\* C10: with several requests in flight, what each client receives is the
\* text generated for its own request with the provenance of its own
\* documents, and the conversations table holds, for each request whose save
\* succeeded, one row built from that request alone, and nothing else.
C10_RequestsIndependent ==
  /\ \A r \in Slots :
       /\ req[r].handler = "stream" => req[r].written = req[r].delivered
       /\ (req[r].handler = "chatjs" /\ req[r].pc = "done"
             /\ req[r].status = 200 /\ req[r].generated)
          => /\ req[r].body.answer = req[r].delivered
             /\ req[r].body.provenance = ProvenanceListJs(req[r].docs)
  /\ Len(conversations) = Cardinality(SavedSlots)
  /\ \A r \in SavedSlots :
       \E i \in DOMAIN conversations : conversations[i] = OwnRow(r)

\* two streaming requests, each with chunks written, both saved
C10_Witness ==
  /\ \A r \in {1, 2} :
       /\ req[r].handler = "stream" /\ req[r].pc = "done"
       /\ Len(req[r].written) = MaxChunks
       /\ req[r].saveOutcome = "ok"
  /\ Len(conversations) >= 2

\* C5: a GET /conversation/:id answered 200 lists, with the id, role and
\* content POST / answered 201 for, every message the caller posted to that
\* conversation that has not been updated or deleted since, while the
\* conversation exists.
C5_RoundTrip ==
  \A r \in MsgSlots :
    (mreq[r].op = "get" /\ mreq[r].pc = "done" /\ mreq[r].status = 200)
    => \A p \in posted :
         (/\ p.user = mreq[r].user.str
          /\ p.conversation_id = mreq[r].conversationId.str
          /\ p.id \notin touched
          /\ \E c \in convs : c.id = p.conversation_id)
         => \E i \in DOMAIN mreq[r].list :
              mreq[r].list[i] = [id |-> p.id, role |-> p.role,
                                 content |-> p.content]

\* a GET answered 200 whose list holds a posted, untouched message
C5_Witness ==
  \E r \in MsgSlots :
    /\ mreq[r].op = "get" /\ mreq[r].pc = "done" /\ mreq[r].status = 200
    /\ \E p \in posted :
         /\ p.id \notin touched
         /\ p.user = mreq[r].user.str
         /\ p.conversation_id = mreq[r].conversationId.str
         /\ Len(mreq[r].list) >= 1
         /\ mreq[r].list[1].content = p.content

\* a POST / body the boundary rule rejects: role outside user / assistant /
\* system, or content or conversationId missing or empty
RejectedBody(q) ==
  \/ q.role \notin {Str("user"), Str("assistant"), Str("system")}
  \/ q.content \in {Undefined, Str("")}
  \/ q.conversationId \in {Undefined, Str("")}

\* C6: a POST / from an authenticated user with such a body is answered 400
\* at once and issues no write.
C6_InvalidPostRejected ==
  \A r \in MsgSlots :
    (mreq[r].op = "post" /\ Truthy(mreq[r].user) /\ RejectedBody(mreq[r]))
    => /\ mreq[r].pc = "done"
       /\ mreq[r].status = 400
       /\ mreq[r].nWrites = 0

\* a POST / with role admin, otherwise complete, answered 400
C6_Witness ==
  \E r \in MsgSlots :
    /\ mreq[r].op = "post" /\ mreq[r].pc = "done" /\ mreq[r].status = 400
    /\ mreq[r].user = Str("u1") /\ mreq[r].role = Str("admin")
    /\ mreq[r].content = Str("hi") /\ mreq[r].conversationId = Str("c1")

\* the exchange in the POST slot was answered 200 and saved, and the GET
\* that followed it for the same session, with a limit that covers the
\* table, was answered 200
ExchangeThenHistory ==
  /\ AnsweredChat(PostSlot) /\ req[PostSlot].status = 200
  /\ req[PostSlot].saveOutcome = "ok"
  /\ req[GetSlot].handler = "history" /\ req[GetSlot].pc = "done"
  /\ req[GetSlot].status = 200
  /\ req[GetSlot].sessionId = req[PostSlot].sessionId
  /\ LimitOf(req[GetSlot].limit) >= Len(conversations)

\* C11: an exchange saved by a POST /api/chat handler for session S is in
\* the list GET /api/chat/history/S returns afterwards, with the message
\* sent, the answer the client received and one retrieved_docs entry per
\* retrieved document, in order.
C11_HistoryRoundTrip ==
  ExchangeThenHistory
  => \E k \in DOMAIN req[GetSlot].history :
       LET e == req[GetSlot].history[k]
       IN /\ e.user_message = Value(req[PostSlot].message)
          /\ e.assistant_response = Value(req[PostSlot].body.answer)
          /\ e.retrieved_docs.present
          /\ Len(e.retrieved_docs.val) = Len(req[PostSlot].docs)
          /\ \A i \in DOMAIN req[PostSlot].docs :
               e.retrieved_docs.val[i].product_id
                 = req[PostSlot].docs[i].product_id

\* a body field that is missing, empty or not a string
NotAString(v) == v.kind # "string" \/ v.str = ""

\* the request in slot r was answered 400 before any external call
RejectedUnprocessed(r) ==
  /\ req[r].pc = "done" /\ req[r].status = 400
  /\ req[r].nEmbed = 0 /\ req[r].nSearch = 0
  /\ req[r].nGen = 0 /\ req[r].nSave = 0

ConvsOfOthers(cs, u) == {c \in cs : c.user_id # u}
MessagesOfOthers(cs, ms, u) ==
  {m \in ms : \E c \in ConvsOfOthers(cs, u) : c.id = m.conversation_id}

\* the request addresses a conversation, or a message of a conversation,
\* that exists and belongs to somebody else
ForeignTarget(q) ==
  /\ Truthy(q.user)
  /\ \/ /\ q.op \in {"get", "post", "delconv"}
        /\ \E c \in ConvsOfOthers(convs, q.user.str) :
             c.id = q.conversationId.str
     \/ /\ q.op \in {"put", "delete"}
        /\ \E m \in MessagesOfOthers(convs, messages, q.user.str) :
             m.id = q.messageId

\* a well-formed request on somebody else's data is answered 404 (500 when
\* the database fails)
ForeignAnswered404 ==
  \A r \in MsgSlots :
    (mreq[r].pc = "done" /\ ForeignTarget(mreq[r])
       /\ mreq[r].status \notin {400, 500})
    => mreq[r].status = 404

\* a step of a request of user u leaves the data of the other users as it is
OthersDataUnchanged ==
  \A r \in MsgSlots :
    (mreq'[r] # mreq[r] /\ Truthy(mreq'[r].user))
    => LET u == mreq'[r].user.str
       IN /\ ConvsOfOthers(convs', u) = ConvsOfOthers(convs, u)
          /\ MessagesOfOthers(convs', messages', u)
               = MessagesOfOthers(convs, messages, u)

\* C13: a request authenticated as user A on a conversation, or a message
\* of a conversation, owned by another user B is answered 404, and no step
\* of a request of A changes a conversation or a message of B.
C13_CrossUserIsolation ==
  /\ []ForeignAnswered404
  /\ [][OthersDataUnchanged]_vars

\* C14: DELETE /:id of the conversations router by an authenticated user
\* answers 404 when it removed no conversation (the id does not exist or
\* belongs to somebody else), a failed statement aside, and answers 200 only
\* when it removed a conversation of the caller.
C14_DeleteMissingIs404 ==
  \A r \in MsgSlots :
    (mreq[r].op = "delconv" /\ mreq[r].pc = "done" /\ Truthy(mreq[r].user))
    => /\ (mreq[r].removed = 0 /\ mreq[r].status # 500)
            => mreq[r].status = 404
       /\ mreq[r].status = 200 => mreq[r].removed = 1

\* C15: on every endpoint of the conversations and messages routers a
\* request without an authenticated user id is answered 401 at once,
\* whatever its body and path parameters, and no statement is sent to the
\* database for it.
C15_UnauthenticatedIs401 ==
  \A r \in MsgSlots :
    (mreq[r].op # "none" /\ ~Truthy(mreq[r].user))
    => /\ mreq[r].pc = "done"
       /\ mreq[r].status = 401
       /\ mreq[r].nQueries = 0
       /\ mreq[r].nWrites = 0

\* POST / of the messages router without a user and without a body, answered
\* 401
C15_Witness ==
  \E r \in MsgSlots :
    /\ mreq[r].op = "post" /\ mreq[r].pc = "done" /\ mreq[r].status = 401
    /\ mreq[r].user = Undefined
    /\ mreq[r].content = Undefined /\ mreq[r].role = Undefined

\* C16: in POST /api/chat/stream the conversation write is issued only once
\* the response has been ended; when it succeeds the stored
\* assistant_response is the chunks written to the client, in order; and
\* whether it succeeds or fails the client has its 200 response, ended, with
\* every chunk the completion delivered.
C16_StreamSavedAfterEnd ==
  \A r \in Slots :
    req[r].handler = "stream"
    => /\ req[r].nSave >= 1 => req[r].ended
       /\ req[r].saveOutcome = "ok"
            => \E i \in DOMAIN conversations :
                 /\ conversations[i].answer = req[r].written
                 /\ conversations[i].user_message = req[r].message
                 /\ conversations[i].session_id = req[r].sessionId
       /\ req[r].saveOutcome # "none"
            => /\ req[r].status = 200 /\ req[r].ended
               /\ req[r].written = req[r].delivered

\* a streamed answer of two different chunks, ended and then saved
C16_Witness ==
  \E r \in Slots :
    /\ req[r].handler = "stream" /\ req[r].pc = "done"
    /\ req[r].saveOutcome = "ok" /\ req[r].ended
    /\ req[r].written = <<"x", "y">>
    /\ Len(conversations) = 1 /\ conversations[1].answer = <<"x", "y">>

\* the line of body that the newline at position k ends
LineEndingAt(body, k) ==
  LET before == {j \in 1..(k - 1) : body[j] = "\n"}
      start == IF before = {} THEN 1
               ELSE 1 + CHOOSE j \in before : \A i \in before : i <= j
  IN SubSeq(body, start, k - 1)

\* positions of the newlines that end a line 'data: [DONE]'
DoneLines(body) ==
  {k \in DOMAIN body :
     body[k] = "\n" /\ LineEndingAt(body, k) = DataPrefix \o DoneText}

\* the non-empty delta contents of the newline-terminated 'data: ' lines
\* among the first n tokens of body that precede the first '[DONE]' line
RECURSIVE ContentsUpTo(_, _)
ContentsUpTo(body, n) ==
  IF n = 0 THEN <<>>
  ELSE ContentsUpTo(body, n - 1) \o
       (IF /\ body[n] = "\n"
           /\ \A d \in DoneLines(body) : n < d
           /\ \E c \in {"x", "y"} :
                LineEndingAt(body, n) = DataPrefix \o DeltaJson(c)
        THEN <<LineEndingAt(body, n)[Len(DataPrefix) + 2]>>
        ELSE <<>>)

ExpectedCalls(body) == ContentsUpTo(body, Len(body))

IsPrefix(s, t) == Len(s) <= Len(t) /\ s = SubSeq(t, 1, Len(s))

\* C17: however the body is cut into reads, onChunk is called with the
\* non-empty delta contents of the newline-terminated 'data: ' lines that
\* precede the first '[DONE]' line, once each and in order: the calls made
\* so far are always a prefix of that sequence and are the whole of it once
\* chatCompletionStream has returned.  A line that is not valid JSON makes
\* no call and does not stop the reading.
C17_SplitInsensitive ==
  /\ ssePc \in {"reading", "returned"}
       => IsPrefix(onChunkCalls, ExpectedCalls(sseBody))
  /\ ssePc = "returned" => onChunkCalls = ExpectedCalls(sseBody)

\* chatCompletionStream returned at '[DONE]' after the one call for "x",
\* leaving unread the rest of a body that carries a delta "y" further on
C17_Witness ==
  /\ ssePc = "returned"
  /\ onChunkCalls = <<"x">>
  /\ \E k \in DOMAIN sseBody : sseBody[k] = "y"
  /\ sseReads # <<>>

\* the rows of the conversations table stored for a sessionId
RowsOfSession(sessionId) ==
  {i \in DOMAIN conversations : conversations[i].session_id = sessionId}

\* C18: a POST /api/chat request with a sessionId that was answered 200 and
\* whose conversation write did not fail has left exactly one row for its
\* session, with its message and the answer the client received, the
\* escalation sentence included.
C18_ExactlyOneRecord ==
  \A r \in Slots :
    (AnsweredChat(r) /\ req[r].status = 200 /\ Truthy(req[r].sessionId)
       /\ req[r].saveOutcome # "failed")
    => /\ Cardinality(RowsOfSession(req[r].sessionId)) = 1
       /\ \A i \in RowsOfSession(req[r].sessionId) :
            /\ conversations[i].user_message = req[r].message
            /\ conversations[i].answer = req[r].body.answer

\* the embeddings table holds the description record of product id
HasDescriptionEmbedding(id) ==
  \E k \in DOMAIN embeddings :
    embeddings[k].product_id = id /\ embeddings[k].source_type = "description"

\* C19: in POST /api/upload/product-data every product reported 'success'
\* has its row in the products table and, when it has a description, its
\* description record in the embeddings table; and no product with a
\* description stays in the products table without that record.
C19_SuccessMeansStored ==
  /\ \A r \in Slots :
       req[r].handler = "upload"
       => \A i \in DOMAIN req[r].results :
            req[r].results[i].status = "success"
            => /\ \E k \in DOMAIN products :
                    products[k].id = req[r].results[i].product_id
               /\ req[r].items[i].description # ""
                    => HasDescriptionEmbedding(req[r].results[i].product_id)
  /\ \A k \in DOMAIN products :
       products[k].description # "" => HasDescriptionEmbedding(products[k].id)

\* positions of the rows request n stored, and of the primary rows of a
\* product
StoredBy(n) == {k \in DOMAIN product_images : product_images[k].request = n}
PrimaryOf(p) ==
  {k \in DOMAIN product_images :
     product_images[k].product_id = p /\ product_images[k].is_primary}

\* C20: among the rows one POST /api/upload/images request stored, the first
\* stored one and only that one is primary, also when an earlier file of the
\* request failed; and a product has at most one primary image.
C20_OnePrimaryImage ==
  /\ \A n \in 1..MaxImageRequests :
       \A k \in StoredBy(n) :
         product_images[k].is_primary <=> (\A j \in StoredBy(n) : k <= j)
  /\ \A k \in DOMAIN product_images :
       Cardinality(PrimaryOf(product_images[k].product_id)) <= 1

\* C21: once a POST /api/upload/images request has been answered, none of
\* the temporary files multer wrote for it is left in the uploads directory,
\* whether the upload and the insert of each file succeeded or failed.
C21_NoTempFilesLeft ==
  ireq.pc = "done" => ireq.onDisk = {}

\* C22: however POST /register requests interleave, no two rows of the
\* users table have the same email, and a registration whose email already
\* has a row when its statement runs is answered 409 and inserts nothing.
C22_OneUserPerEmail ==
  /\ \A i, j \in DOMAIN users : users[i].email = users[j].email => i = j
  /\ \A s \in AuthSlots :
       (areq[s].pc = "done" /\ areq[s].route = "register"
          /\ areq[s].hadRecord /\ ~areq[s].dbFailed)
       => (areq[s].response.status = 409 /\ ~areq[s].inserted)

\* the identical answer of a refused login
InvalidCredentials == AuthError(401, "Invalid credentials")

\* an account of the table as the login found it has this email and
\* password and is active
ValidLogin(a) ==
  \E i \in DOMAIN a.usersAtFind :
    /\ a.usersAtFind[i].email = a.email.str
    /\ a.usersAtFind[i].is_active
    /\ Compare(a.password.str, a.usersAtFind[i].password_hash)

\* a login with both fields whose statement ran
AnsweredLogin(a) ==
  /\ a.pc = "done" /\ a.route = "login" /\ ~a.dbFailed
  /\ a.response.status # 400

\* C23: a login for an unknown email, for an inactive user and for a known
\* email with a wrong password all get the same 401 'Invalid credentials'
\* response, and a token is issued only to an existing active user whose
\* password matches.
C23_LoginRevealsNothing ==
  \A s \in AuthSlots :
    AnsweredLogin(areq[s]) =>
      /\ ~ValidLogin(areq[s]) => areq[s].response = InvalidCredentials
      /\ areq[s].response.token # <<>> =>
            /\ ValidLogin(areq[s])
            /\ areq[s].response.status = 200
            /\ areq[s].response.token[1].email = areq[s].email.str

\* a login with a wrong password for the active account a@x and a login
\* for an inactive or unknown email have both been refused
C23_Witness ==
  \E s, t \in AuthSlots :
    /\ AnsweredLogin(areq[s]) /\ AnsweredLogin(areq[t])
    /\ areq[s].email = Str("a@x") /\ areq[s].password = Str("pw2")
    /\ areq[t].email \in {Str("b@x"), Str("c@x")}
    /\ areq[t].password = Str("pw1")
    /\ areq[s].response = InvalidCredentials
    /\ areq[t].response = InvalidCredentials

\* the distance between the starts of consecutive windows
ChunkStep == chunkSize - overlap

\* the window of the text that starts at word i (0-based)
Window(i) == Slice(words, i, i + chunkSize)

\* the number of words of the text that lie in the windows of both chunk k
\* and chunk k + 1
SharedWords(k) ==
  Cardinality({j \in 0..(Len(words) - 1) :
                 /\ chunkStarts[k] <= j /\ j < chunkStarts[k] + chunkSize
                 /\ chunkStarts[k + 1] <= j
                 /\ j < chunkStarts[k + 1] + chunkSize})

\* every word that is not empty lies in the window of a chunk, and each
\* chunk is its window without the spaces at its ends
ChunksCoverText ==
  /\ \A j \in 0..(Len(words) - 1) :
       words[j + 1] # "" =>
         \E k \in DOMAIN chunks :
           chunkStarts[k] <= j /\ j < chunkStarts[k] + chunkSize
  /\ \A k \in DOMAIN chunks : chunks[k] = Trim(Window(chunkStarts[k]))

ChunksInOrder ==
  \A k \in 1..(Len(chunks) - 1) : chunkStarts[k] < chunkStarts[k + 1]

ChunksWithinSize ==
  \A k \in DOMAIN chunks : Len(chunks[k]) <= chunkSize

ChunksNotEmpty ==
  \A k \in DOMAIN chunks :
    chunks[k] # <<>> /\ chunks[k][1] # "" /\ chunks[k][Len(chunks[k])] # ""

ChunksSpacedBySkips(k) ==
  /\ \E m \in 1..Len(words) :
       /\ chunkStarts[k + 1] - chunkStarts[k] = m * ChunkStep
       /\ \A n \in 1..(m - 1) :
            Trim(Window(chunkStarts[k] + n * ChunkStep)) = <<>>
  /\ chunkStarts[k + 1] - chunkStarts[k] = ChunkStep =>
       SharedWords(k) =
         IF Len(words) - chunkStarts[k + 1] < overlap
         THEN Len(words) - chunkStarts[k + 1] ELSE overlap

C25_EveryProductAttempted ==
  /\ [](/\ attempts = [k \in 1..Len(attempts) |-> k]
        /\ Len(attempts) <= Len(ingFile)
        /\ ingPc = "complete" => Len(attempts) = Len(ingFile)
        /\ ingPc = "complete" => Len(outcomes) = Len(attempts))
  /\ <>(ingPc = "complete")

\* the run is complete, its first product failed and its second was
\* processed
C25_Witness ==
  /\ ingPc = "complete"
  /\ Len(ingFile) = 2
  /\ outcomes = <<"failed", "processed">>
  /\ attempts = <<1, 2>>

\* run r of the embedding script is over
RunOver(r) == r < genRun \/ (r = genRun /\ genPc = "finished")

\* the rows run r inserted
InsertedInRun(r) == {k \in DOMAIN dbEmbeddings : dbEmbeddings[k].run = r}

\* every product has exactly one embedding of each source type
OneOfEachType ==
  \A k \in DOMAIN dbProducts :
    /\ EmbeddingsOf(dbProducts[k].id) # {}
    /\ ConsistentlyEmbedded(dbProducts[k].id)

\* no product gets a row in a run that found it embedded
SkippedGetNothing ==
  \A k \in DOMAIN dbEmbeddings :
    <<dbEmbeddings[k].run, dbEmbeddings[k].product_id>> \notin genSkipped

SubmitEvents == {"submit", "enter"}

C28_OneSessionPerWidget ==
  \A i, j \in DOMAIN sentRequests :
    sentRequests[i].sessionId = sentRequests[j].sessionId

====
